---- MODULE Spec2Model ----
(***************************************************************************)
(* Risk record lifecycle and scoring of gerenciamento_riscos:              *)
(* database/crud.py (RiscoCRUD, PlanoAcaoCRUD), database/models.py         *)
(* (Risco, PlanoAcao, AvaliacaoHistorica, AtualizacaoPlanoAcao) and        *)
(* database/conection.py (session_scope, migrate_from_csv); and its        *)
(* authentication: auth/authenticator.py (StreamlitAuthenticator) and      *)
(* auth/azure_ad.py (AzureADAuthenticator, HybridAuthenticator).           *)
(*                                                                         *)
(* Python dicts are functions whose DOMAIN is the set of keys present.     *)
(* None is the token None; an optional datetime is <<>> (None) or <<t>>.   *)
(* Strings the code formats or tests character by character (the risk      *)
(* code) are sequences of one-character strings.                           *)
(***************************************************************************)
EXTENDS Integers, Sequences, FiniteSets, TLC

VARIABLES
    riscos,                 \* table riscos: id -> row
    avaliacoes_historicas,  \* table avaliacoes_historicas, in insertion order
    planos_acao,            \* table planos_acao: id -> row
    atualizacoes_planos_acao, \* table atualizacoes_planos_acao, in insertion order
    now,                    \* datetime.now(), in whole time units
    last,                   \* the last CRUD call: its target and its outcome
    call,                   \* a call of a pure function: its arguments and result
    sessoes,                \* the open sessions of concurrent actors: actor -> session
    session_state,          \* st.session_state of one browser session: key -> value
    credentials             \* credentials['usernames'] of the authenticator

vars == <<riscos, avaliacoes_historicas, planos_acao, atualizacoes_planos_acao,
          now, last, call, sessoes, session_state, credentials>>

----------------------------------------------------------------------------
(* Bounds *)

MaxRiscos == 2
MaxAvaliados == 1
MaxHistorico == 1
MaxPlanos == 1
MaxAtualizacoes == 1
MaxTime == 2
MaxConsulta == 2

\* The risks of a store that is listed, and the largest offset and limit
MaxLista == 3

----------------------------------------------------------------------------
(* Enumerations of models.py *)

None == "None"

NivelProbabilidade == {"MUITO_BAIXA", "BAIXA", "MEDIA", "ALTA", "MUITO_ALTA"}

NivelImpacto == {"MUITO_BAIXO", "BAIXO", "MODERADO", "ALTO", "MUITO_ALTO"}

NivelCriticidade == {"BAIXO", "MEDIO", "ALTO", "CRITICO"}

StatusAcao == {"NAO_INICIADO", "EM_ANDAMENTO", "CONCLUIDO", "ATRASADO", "CANCELADO"}

\* A value that is no member of the enumeration, e.g. the label string
\* "Média" the form of pages/risk_register.py passes instead of the member.
Unmapped == "Média"

----------------------------------------------------------------------------
(* dict helpers *)

Has(d, k) == k \in DOMAIN d

Get(d, k, default) == IF k \in DOMAIN d THEN d[k] ELSE default

Without(d, k) == [x \in (DOMAIN d) \ {k} |-> d[x]]

With(d, k, v) == [x \in (DOMAIN d) \cup {k} |-> IF x = k THEN v ELSE d[x]]

Merge(d, e) == [x \in (DOMAIN d) \cup (DOMAIN e) |-> IF x \in DOMAIN e THEN e[x] ELSE d[x]]

----------------------------------------------------------------------------
(* RiscoCRUD._calcular_criticidade *)

\* The values of the two highest levels exchanged.
prob_valores_trocados ==
    [MUITO_BAIXA |-> 1, BAIXA |-> 2, MEDIA |-> 3, ALTA |-> 5, MUITO_ALTA |-> 4]

prob_valores ==
    [MUITO_BAIXA |-> 1, BAIXA |-> 2, MEDIA |-> 3, ALTA |-> 4, MUITO_ALTA |-> 5]

impacto_valores ==
    [MUITO_BAIXO |-> 1, BAIXO |-> 2, MODERADO |-> 3, ALTO |-> 4, MUITO_ALTO |-> 5]

\* The tiers with the upper bounds exclusive.
TierExclusivo(produto) ==
    IF produto < 4 THEN "BAIXO"
    ELSE IF produto < 9 THEN "MEDIO"
    ELSE IF produto < 16 THEN "ALTO"
    ELSE "CRITICO"

Tier(produto) ==
    IF produto <= 4 THEN "BAIXO"
    ELSE IF produto <= 9 THEN "MEDIO"
    ELSE IF produto <= 16 THEN "ALTO"
    ELSE "CRITICO"

\* An unmapped level counts as the lowest value.
_calcular_criticidade_default_1(probabilidade, impacto) ==
    LET prob_num == Get(prob_valores, probabilidade, 1)
        impacto_num == Get(impacto_valores, impacto, 1)
    IN  Tier(prob_num * impacto_num)

_calcular_criticidade(probabilidade, impacto) ==
    LET prob_num == Get(prob_valores, probabilidade, 3)
        impacto_num == Get(impacto_valores, impacto, 3)
    IN  Tier(prob_num * impacto_num)

----------------------------------------------------------------------------
(* Risk codes: f"RSK-{str(ultimo_id + 1).zfill(3)}" *)

ZFillWidth == 3

Digits == <<"0", "1", "2", "3", "4", "5", "6", "7", "8", "9">>

RECURSIVE Str(_)
Str(n) == IF n < 10 THEN <<Digits[n + 1]>> ELSE Str(n \div 10) \o <<Digits[(n % 10) + 1]>>

RECURSIVE zfill(_, _)
zfill(s, width) == IF Len(s) >= width THEN s ELSE zfill(<<"0">> \o s, width)

GerarCodigo(ultimo_id) == <<"R", "S", "K", "-">> \o zfill(Str(ultimo_id + 1), ZFillWidth)

----------------------------------------------------------------------------
(* models.Risco: the columns, their defaults, NOT NULL and UNIQUE *)

RiscoColumns ==
    {"id", "eap", "codigo_risco", "fonte", "categoria", "titulo_evento",
     "descricao_evento", "causas", "tipo_impacto", "consequencias",
     "probabilidade", "impacto", "criticidade", "ativo", "data_identificacao",
     "atualizado_em", "criado_por_id"}

RiscoNotNull ==
    {"eap", "fonte", "categoria", "titulo_evento", "descricao_evento", "causas",
     "tipo_impacto", "consequencias", "probabilidade", "impacto", "criticidade"}

\* Risco(**kwargs) followed by the INSERT of flush(): a column the caller left
\* out is NULL, but for the autoincrement id and the columns with a default
\* (ativo: True, atualizado_em: func.now()).
Risco(kwargs, id) ==
    [c \in RiscoColumns |->
        IF c = "id" THEN id
        ELSE IF c \in DOMAIN kwargs THEN kwargs[c]
        ELSE IF c = "ativo" THEN TRUE
        ELSE IF c = "atualizado_em" THEN now
        ELSE None]

RiscoIds == DOMAIN riscos

\* session.query(func.max(Risco.id)).scalar() or 0
UltimoId == IF RiscoIds = {} THEN 0 ELSE CHOOSE m \in RiscoIds : \A x \in RiscoIds : x <= m

\* The constraints the store checks on INSERT/UPDATE of a riscos row.
RiscoConstraintsOk(row, outros) ==
    /\ \A c \in RiscoNotNull : row[c] # None
    /\ \A o \in outros : o.codigo_risco # row.codigo_risco

OutrosRiscos(id) == {riscos[x] : x \in RiscoIds \ {id}}

----------------------------------------------------------------------------
(* session_scope: the with block's changes are committed when the block      *)
(* ends normally, and rolled back when it, or the commit, raises.            *)

\* The session's changes survive the exception.
session_scope_sem_rollback(antes, sessao, ok) == sessao

session_scope(antes, sessao, ok) == IF ok THEN sessao ELSE antes

----------------------------------------------------------------------------
(* RiscoCRUD.criar_risco, run inside session_scope *)

CodigoAusente(risco_data) ==
    ~Has(risco_data, "codigo_risco") \/ risco_data["codigo_risco"] = <<>>

ComCodigo(risco_data) ==
    IF CodigoAusente(risco_data)
    THEN With(risco_data, "codigo_risco", GerarCodigo(UltimoId))
    ELSE risco_data

\* The two levels handed to the scorer in the wrong order.
ComCriticidadeTrocada(risco_data) ==
    IF ~Has(risco_data, "criticidade") /\ Has(risco_data, "probabilidade") /\ Has(risco_data, "impacto")
    THEN With(risco_data, "criticidade",
              _calcular_criticidade(risco_data["impacto"], risco_data["probabilidade"]))
    ELSE risco_data

ComCriticidade(risco_data) ==
    IF ~Has(risco_data, "criticidade") /\ Has(risco_data, "probabilidade") /\ Has(risco_data, "impacto")
    THEN With(risco_data, "criticidade",
              _calcular_criticidade(risco_data["probabilidade"], risco_data["impacto"]))
    ELSE risco_data

criar_risco(risco_data, criado_por_id) ==
    LET d == Merge(ComCriticidade(ComCodigo(risco_data)),
                   [criado_por_id |-> criado_por_id, data_identificacao |-> now])
        id == UltimoId + 1
        risco == Risco(d, id)
        gerado == IF CodigoAusente(risco_data) THEN d["codigo_risco"] ELSE <<>>
    IN  /\ IF RiscoConstraintsOk(risco, OutrosRiscos(id))
           THEN /\ riscos' = [x \in RiscoIds \cup {id} |-> IF x = id THEN risco ELSE riscos[x]]
                /\ last' = [op |-> "criar_risco", dados |-> risco_data, gerado |-> gerado,
                            id |-> id, ret |-> "Risco", erro |-> None]
           ELSE \* flush() raises IntegrityError; session_scope rolls back
                /\ riscos' = riscos
                /\ last' = [op |-> "criar_risco", dados |-> risco_data, gerado |-> gerado,
                            id |-> 0, ret |-> None, erro |-> "IntegrityError"]
        /\ UNCHANGED <<avaliacoes_historicas, planos_acao, atualizacoes_planos_acao, now, call, sessoes, session_state, credentials>>

----------------------------------------------------------------------------
(* RiscoCRUD.atualizar_risco and _salvar_historico_avaliacao *)

AvaliacaoKeys == {"probabilidade", "impacto", "criticidade"}

_salvar_historico_avaliacao(risco, novos_dados, usuario_id) ==
    [risco_id |-> risco.id,
     probabilidade_anterior |-> risco.probabilidade,
     probabilidade_nova |-> Get(novos_dados, "probabilidade", risco.probabilidade),
     impacto_anterior |-> risco.impacto,
     impacto_novo |-> Get(novos_dados, "impacto", risco.impacto),
     criticidade_anterior |-> risco.criticidade,
     criticidade_nova |-> Get(novos_dados, "criticidade", risco.criticidade),
     motivo_mudanca |-> Get(novos_dados, "motivo_mudanca", "Atualização"),
     avaliado_por_id |-> usuario_id]

\* for campo, valor in dados.items(): if hasattr(obj, campo): setattr(obj, campo, valor)
SetAttrs(obj, dados) ==
    [c \in DOMAIN obj |-> IF c \in DOMAIN dados THEN dados[c] ELSE obj[c]]

Recalculado(risco, dados_atualizacao) ==
    IF Has(dados_atualizacao, "probabilidade") \/ Has(dados_atualizacao, "impacto")
    THEN [risco EXCEPT !.criticidade = _calcular_criticidade(risco.probabilidade, risco.impacto)]
    ELSE risco

\* The risk as atualizar_risco leaves it in the session.
RiscoAtualizado(risco, dados_atualizacao) ==
    [Recalculado(SetAttrs(risco, dados_atualizacao), dados_atualizacao)
        EXCEPT !.atualizado_em = now]

GravaHistorico(dados_atualizacao, salvar_historico) ==
    salvar_historico /\ (DOMAIN dados_atualizacao) \cap AvaliacaoKeys # {}

\* Without the check of the lookup: an unknown id raises on risco.id.
atualizar_risco_sem_busca(risco_id, dados_atualizacao, atualizado_por_id, salvar_historico) ==
    /\ last' = [op |-> "atualizar_risco", risco_id |-> risco_id, ret |-> None,
                erro |-> IF risco_id \in RiscoIds THEN None ELSE "AttributeError",
                historico |-> FALSE]
    /\ UNCHANGED <<riscos, avaliacoes_historicas, planos_acao,
                   atualizacoes_planos_acao, now, call, sessoes,
                   session_state, credentials>>

atualizar_risco(risco_id, dados_atualizacao, atualizado_por_id, salvar_historico) ==
    IF risco_id \notin RiscoIds
    THEN /\ last' = [op |-> "atualizar_risco", risco_id |-> risco_id, ret |-> None,
                     erro |-> None, historico |-> FALSE]
         /\ UNCHANGED <<riscos, avaliacoes_historicas, planos_acao,
                        atualizacoes_planos_acao, now, call, sessoes,
                        session_state, credentials>>
    ELSE LET risco == riscos[risco_id]
             grava == GravaHistorico(dados_atualizacao, salvar_historico)
             novo == RiscoAtualizado(risco, dados_atualizacao)
             \* the session when the with block ends: the row added by
             \* _salvar_historico_avaliacao and the modified risk
             historico == IF grava
                          THEN Append(avaliacoes_historicas,
                                      _salvar_historico_avaliacao(risco, dados_atualizacao,
                                                                  atualizado_por_id))
                          ELSE avaliacoes_historicas
             \* commit() flushes; a violated constraint raises IntegrityError
             ok == RiscoConstraintsOk(novo, OutrosRiscos(risco_id))
         IN  /\ grava => Len(avaliacoes_historicas) < MaxHistorico
             /\ riscos' = session_scope(riscos, [riscos EXCEPT ![risco_id] = novo], ok)
             /\ avaliacoes_historicas' = session_scope(avaliacoes_historicas, historico, ok)
             \* historico: _salvar_historico_avaliacao was called
             /\ last' = IF ok
                        THEN [op |-> "atualizar_risco", risco_id |-> risco_id,
                              ret |-> "Risco", erro |-> None, historico |-> grava]
                        ELSE [op |-> "atualizar_risco", risco_id |-> risco_id,
                              ret |-> None, erro |-> "IntegrityError", historico |-> grava]
             /\ UNCHANGED <<planos_acao, atualizacoes_planos_acao, now, call, sessoes, session_state, credentials>>

----------------------------------------------------------------------------
(* RiscoCRUD.excluir_risco *)

\* session.delete(risco) instead of the flag.
excluir_risco_definitivo(risco_id) ==
    /\ riscos' = [x \in RiscoIds \ {risco_id} |-> riscos[x]]
    /\ last' = [op |-> "excluir_risco", risco_id |-> risco_id,
                ativo_antes |-> FALSE, ret |-> risco_id \in RiscoIds, erro |-> None]
    /\ UNCHANGED <<avaliacoes_historicas, planos_acao, atualizacoes_planos_acao, now, call, sessoes, session_state, credentials>>

\* The deactivation cascades to the risk's action plans.
excluir_risco_cascata(risco_id) ==
    /\ riscos' = IF risco_id \in RiscoIds /\ riscos[risco_id].ativo
                 THEN [riscos EXCEPT ![risco_id].ativo = FALSE,
                                     ![risco_id].atualizado_em = now]
                 ELSE riscos
    /\ planos_acao' = [x \in {p \in DOMAIN planos_acao : planos_acao[p].risco_id # risco_id}
                          |-> planos_acao[x]]
    /\ last' = [op |-> "excluir_risco", risco_id |-> risco_id,
                ativo_antes |-> FALSE, ret |-> risco_id \in RiscoIds, erro |-> None]
    /\ UNCHANGED <<avaliacoes_historicas, atualizacoes_planos_acao, now, call, sessoes, session_state, credentials>>

excluir_risco(risco_id) ==
    /\ IF risco_id \notin RiscoIds
       THEN /\ riscos' = riscos
            /\ last' = [op |-> "excluir_risco", risco_id |-> risco_id,
                        ativo_antes |-> FALSE, ret |-> FALSE, erro |-> None]
       ELSE \* the UPDATE commit() emits for a changed row also sets
            \* atualizado_em (onupdate=func.now())
            /\ riscos' = IF riscos[risco_id].ativo
                         THEN [riscos EXCEPT ![risco_id].ativo = FALSE,
                                             ![risco_id].atualizado_em = now]
                         ELSE riscos
            /\ last' = [op |-> "excluir_risco", risco_id |-> risco_id,
                        ativo_antes |-> riscos[risco_id].ativo, ret |-> TRUE, erro |-> None]
    /\ UNCHANGED <<avaliacoes_historicas, planos_acao, atualizacoes_planos_acao, now, call, sessoes, session_state, credentials>>

----------------------------------------------------------------------------
(* models.PlanoAcao *)

PlanoColumns ==
    {"id", "risco_id", "descricao_acao", "data_conclusao", "status",
     "percentual_conclusao", "atrasado", "atualizado_em", "criado_por_id",
     "atualizado_por_id"}

\* PlanoAcao(**kwargs) followed by the INSERT of flush(). NULL is None for a
\* text column, <<>> for a datetime and 0 for a foreign key.
PlanoAcao(kwargs, id) ==
    [c \in PlanoColumns |->
        IF c = "id" THEN id
        ELSE IF c \in DOMAIN kwargs THEN kwargs[c]
        ELSE IF c = "status" THEN "NAO_INICIADO"
        ELSE IF c = "percentual_conclusao" THEN 0
        ELSE IF c = "atrasado" THEN FALSE
        ELSE IF c = "atualizado_em" THEN now
        ELSE IF c = "data_conclusao" THEN <<>>
        ELSE IF c \in {"risco_id", "criado_por_id", "atualizado_por_id"} THEN 0
        ELSE None]

PlanoIds == DOMAIN planos_acao

UltimoPlanoId == IF PlanoIds = {} THEN 0 ELSE CHOOSE m \in PlanoIds : \A x \in PlanoIds : x <= m

\* NOT NULL on risco_id and descricao_acao; FOREIGN KEY risco_id -> riscos.id
\* (PRAGMA foreign_keys=ON).
PlanoConstraintsOk(row) ==
    /\ row.risco_id # 0
    /\ row.descricao_acao # None
    /\ row.risco_id \in RiscoIds

\* PlanoAcao.is_atrasado, with datetime.now() = t
is_atrasado(plano, t) ==
    IF plano.data_conclusao # <<>> /\ plano.status # "CONCLUIDO"
    THEN t > plano.data_conclusao[1]
    ELSE FALSE

----------------------------------------------------------------------------
(* PlanoAcaoCRUD.criar_plano_acao, run inside session_scope *)

criar_plano_acao(plano_data, criado_por_id) ==
    LET id == UltimoPlanoId + 1
        plano == PlanoAcao(With(plano_data, "criado_por_id", criado_por_id), id)
    IN  /\ Cardinality(PlanoIds) < MaxPlanos
        /\ IF PlanoConstraintsOk(plano)
           THEN /\ planos_acao' = [x \in PlanoIds \cup {id} |->
                                      IF x = id THEN plano ELSE planos_acao[x]]
                /\ last' = [op |-> "criar_plano_acao", plano_id |-> id, ret |-> "PlanoAcao",
                            erro |-> None]
           ELSE \* flush() raises IntegrityError; session_scope rolls back
                /\ planos_acao' = planos_acao
                /\ last' = [op |-> "criar_plano_acao", plano_id |-> 0, ret |-> None,
                            erro |-> "IntegrityError"]
        /\ UNCHANGED <<riscos, avaliacoes_historicas, atualizacoes_planos_acao, now, call, sessoes, session_state, credentials>>

----------------------------------------------------------------------------
(* PlanoAcaoCRUD.atualizar_plano_acao and _salvar_historico_plano *)

_salvar_historico_plano(plano, novos_dados, usuario_id) ==
    [plano_acao_id |-> plano.id,
     status_anterior |-> plano.status,
     status_novo |-> Get(novos_dados, "status", plano.status),
     percentual_anterior |-> plano.percentual_conclusao,
     percentual_novo |-> Get(novos_dados, "percentual_conclusao", plano.percentual_conclusao),
     descricao_atualizacao |-> Get(novos_dados, "descricao_atualizacao", "Atualização automática"),
     atualizado_por_id |-> usuario_id]

GravaHistoricoPlano(dados_atualizacao, salvar_historico) ==
    salvar_historico /\ (Has(dados_atualizacao, "status") \/ Has(dados_atualizacao, "percentual_conclusao"))

\* Without plano.atrasado = plano.is_atrasado().
PlanoAtualizadoSemAtraso(plano, dados_atualizacao, atualizado_por_id) ==
    LET p == SetAttrs(plano, dados_atualizacao)
    IN  [p EXCEPT !.atualizado_por_id = atualizado_por_id,
                  !.atualizado_em = now]

PlanoAtualizado(plano, dados_atualizacao, atualizado_por_id) ==
    LET p == SetAttrs(plano, dados_atualizacao)
    IN  [p EXCEPT !.atrasado = is_atrasado(p, now),
                  !.atualizado_por_id = atualizado_por_id,
                  !.atualizado_em = now]

atualizar_plano_acao(plano_id, dados_atualizacao, atualizado_por_id, salvar_historico) ==
    IF plano_id \notin PlanoIds
    THEN /\ last' = [op |-> "atualizar_plano_acao", plano_id |-> plano_id, ret |-> None,
                     erro |-> None]
         /\ UNCHANGED <<riscos, avaliacoes_historicas, planos_acao,
                        atualizacoes_planos_acao, now, call, sessoes,
                        session_state, credentials>>
    ELSE LET plano == planos_acao[plano_id]
             grava == GravaHistoricoPlano(dados_atualizacao, salvar_historico)
             novo == PlanoAtualizado(plano, dados_atualizacao, atualizado_por_id)
         IN  /\ grava => Len(atualizacoes_planos_acao) < MaxAtualizacoes
             /\ IF PlanoConstraintsOk(novo)
                THEN /\ planos_acao' = [planos_acao EXCEPT ![plano_id] = novo]
                     /\ atualizacoes_planos_acao' =
                            IF grava
                            THEN Append(atualizacoes_planos_acao,
                                        _salvar_historico_plano(plano, dados_atualizacao,
                                                                atualizado_por_id))
                            ELSE atualizacoes_planos_acao
                     /\ last' = [op |-> "atualizar_plano_acao", plano_id |-> plano_id,
                                 ret |-> "PlanoAcao", erro |-> None]
                ELSE \* commit() raises IntegrityError; session_scope rolls back
                     /\ UNCHANGED <<planos_acao, atualizacoes_planos_acao, session_state, credentials>>
                     /\ last' = [op |-> "atualizar_plano_acao", plano_id |-> plano_id,
                                 ret |-> None, erro |-> "IntegrityError"]
             /\ UNCHANGED <<riscos, avaliacoes_historicas, now, call, sessoes, session_state, credentials>>

----------------------------------------------------------------------------
(* PlanoAcaoCRUD.obter_planos_atrasados and obter_dashboard_planos *)

\* Without the exclusion of the cancelled plans.
FiltroAtrasadosInclusiveCancelado(dias_tolerancia) ==
    LET data_limite == now - dias_tolerancia
    IN  {id \in PlanoIds :
            /\ planos_acao[id].data_conclusao # <<>>
            /\ planos_acao[id].data_conclusao[1] <= data_limite
            /\ planos_acao[id].status # "CONCLUIDO"}

\* The filter of obter_planos_atrasados; a NULL data_conclusao satisfies no
\* comparison.
FiltroAtrasados(dias_tolerancia) ==
    LET data_limite == now - dias_tolerancia
    IN  {id \in PlanoIds :
            /\ planos_acao[id].data_conclusao # <<>>
            /\ planos_acao[id].data_conclusao[1] <= data_limite
            /\ planos_acao[id].status # "CONCLUIDO"
            /\ planos_acao[id].status # "CANCELADO"}

\* ORDER BY data_conclusao: the rows in every order the clause allows (the
\* order of rows with equal dates is the store's choice).
OrderByDataConclusao(ids) ==
    {r \in [1..Cardinality(ids) -> ids] :
        /\ \A a, b \in 1..Cardinality(ids) : a # b => r[a] # r[b]
        /\ \A a, b \in 1..Cardinality(ids) :
              a < b => planos_acao[r[a]].data_conclusao[1] <= planos_acao[r[b]].data_conclusao[1]}

obter_planos_atrasados(dias_tolerancia) ==
    /\ \E r \in OrderByDataConclusao(FiltroAtrasados(dias_tolerancia)) :
          call' = [fn |-> "obter_planos_atrasados", dias_tolerancia |-> dias_tolerancia,
                   ret |-> r]
    /\ UNCHANGED <<riscos, avaliacoes_historicas, planos_acao, atualizacoes_planos_acao,
                   now, last, sessoes, session_state, credentials>>

\* round(x, 1) of x = num / den * 100, in tenths: the nearest tenth, the
\* even one of two equally near.
Round1(num, den) ==
    LET n == 1000 * num
        q == n \div den
        r == n % den
    IN  IF 2 * r < den THEN q
        ELSE IF 2 * r > den THEN q + 1
        ELSE IF q % 2 = 0 THEN q ELSE q + 1

\* The completed plans counted as on time, without the plans that have no
\* end date.
ConcluidosNoPrazoComData ==
    {id \in PlanoIds :
        /\ planos_acao[id].status = "CONCLUIDO"
        /\ planos_acao[id].data_conclusao # <<>>
        /\ planos_acao[id].atualizado_em <= planos_acao[id].data_conclusao[1]}

ConcluidosNoPrazo ==
    {id \in PlanoIds :
        /\ planos_acao[id].status = "CONCLUIDO"
        /\ \/ planos_acao[id].data_conclusao = <<>>
           \/ planos_acao[id].atualizado_em <= planos_acao[id].data_conclusao[1]}

\* taxa_conclusao_prazo is in tenths of a percent.
obter_dashboard_planos ==
    LET total_concluidos == Cardinality({id \in PlanoIds : planos_acao[id].status = "CONCLUIDO"})
        concluidos_no_prazo == Cardinality(ConcluidosNoPrazo)
        taxa_sucesso == IF total_concluidos > 0
                        THEN Round1(concluidos_no_prazo, total_concluidos)
                        ELSE 0
    IN  /\ call' = [fn |-> "obter_dashboard_planos",
                    planos_por_status |->
                        [st \in {planos_acao[id].status : id \in PlanoIds} |->
                            Cardinality({id \in PlanoIds : planos_acao[id].status = st})],
                    taxa_conclusao_prazo |-> taxa_sucesso,
                    total_atrasados |-> Cardinality(FiltroAtrasados(0))]
        /\ UNCHANGED <<riscos, avaliacoes_historicas, planos_acao, atualizacoes_planos_acao,
                       now, last, sessoes, session_state, credentials>>

\* The rows of a query without ORDER BY, in every order the store may
\* return them.
SemOrdem(ids) ==
    {r \in [1..Cardinality(ids) -> ids] :
        \A a, b \in 1..Cardinality(ids) : a # b => r[a] # r[b]}

\* query.limit(limite) under "if limite:"
Limit(r, limite) ==
    IF limite # 0 /\ limite < Len(r) THEN SubSeq(r, 1, limite) ELSE r

\* PlanoAcaoCRUD.listar_planos_acao with responsavel_id = None; risco_id 0 and
\* limite 0 stand for None as well, which the code tests in the same way.
listar_planos_acao(risco_id, status, atrasados_apenas, limite) ==
    LET filtrados ==
            {id \in PlanoIds :
                /\ risco_id # 0 => planos_acao[id].risco_id = risco_id
                /\ status # None => planos_acao[id].status = status
                /\ atrasados_apenas =>
                      /\ planos_acao[id].data_conclusao # <<>>
                      /\ planos_acao[id].data_conclusao[1] < now
                      /\ planos_acao[id].status # "CONCLUIDO"}
    IN  /\ \E r \in SemOrdem(filtrados) :
              call' = [fn |-> "listar_planos_acao", risco_id |-> risco_id, status |-> status,
                       atrasados_apenas |-> atrasados_apenas, limite |-> limite,
                       ret |-> Limit(r, limite)]
        /\ UNCHANGED <<riscos, avaliacoes_historicas, planos_acao, atualizacoes_planos_acao,
                       now, last, sessoes, session_state, credentials>>

\* The WHERE clause built from filtros, for the keys fonte, categoria,
\* criticidade, ativo, data_inicio and data_fim. A filter whose value Python
\* takes as false is skipped: None or "" for a text, <<>> for a datetime. The
\* value of criticidade is the set of the levels asked for: the levels of a
\* list, the one level given alone, and no level for None and for [].
FiltroRiscos(filtros) ==
    {id \in RiscoIds :
        /\ (Has(filtros, "fonte") /\ filtros["fonte"] \notin {None, ""})
              => riscos[id].fonte = filtros["fonte"]
        /\ (Has(filtros, "categoria") /\ filtros["categoria"] \notin {None, ""})
              => riscos[id].categoria = filtros["categoria"]
        /\ (Has(filtros, "criticidade") /\ filtros["criticidade"] # {})
              => riscos[id].criticidade \in filtros["criticidade"]
        /\ Has(filtros, "ativo") => riscos[id].ativo = filtros["ativo"]
        /\ (Has(filtros, "data_inicio") /\ filtros["data_inicio"] # <<>>)
              => riscos[id].data_identificacao >= filtros["data_inicio"][1]
        /\ (Has(filtros, "data_fim") /\ filtros["data_fim"] # <<>>)
              => riscos[id].data_identificacao <= filtros["data_fim"][1]}

\* The columns of Risco that listar_riscos is asked to sort by.
OrdenaveisRisco == {"id", "criticidade", "data_identificacao"}

\* The sort key of a row: the number a column holds, or the rank of its text.
\* The names of NivelCriticidade are compared as the store holds them: as text.
ChaveOrdenacao(risco, ordenacao) ==
    LET texto == <<"ALTO", "BAIXO", "CRITICO", "MEDIO">>
    IN  IF ordenacao = "criticidade"
        THEN CHOOSE k \in 1..Len(texto) : texto[k] = risco.criticidade
        ELSE risco[ordenacao]

\* direcao.lower()
Lower(direcao) == IF direcao = "DESC" THEN "desc" ELSE direcao

\* ORDER BY asc(col) or desc(col) when Risco has the attribute, and no ORDER
\* BY otherwise: the rows in every order the query allows.
OrderByRiscos(ids, ordenacao, direcao) ==
    IF ordenacao \in OrdenaveisRisco
    THEN {r \in SemOrdem(ids) :
            \A a, b \in 1..Len(r) :
                a < b => IF Lower(direcao) = "desc"
                         THEN ChaveOrdenacao(riscos[r[a]], ordenacao)
                                  >= ChaveOrdenacao(riscos[r[b]], ordenacao)
                         ELSE ChaveOrdenacao(riscos[r[a]], ordenacao)
                                  <= ChaveOrdenacao(riscos[r[b]], ordenacao)}
    ELSE SemOrdem(ids)

\* query.offset(offset) under "if offset:"
Offset(r, offset) ==
    IF offset # 0 THEN SubSeq(r, offset + 1, Len(r)) ELSE r

\* RiscoCRUD.listar_riscos: the pairs (riscos, total) the call may return.
\* filtros <<>> is None or {}; limite 0 is None or 0.
listar_riscos(filtros, ordenacao, direcao, limite, offset) ==
    LET ids == IF DOMAIN filtros = {} THEN RiscoIds ELSE FiltroRiscos(filtros)
        total == Cardinality(ids)
    IN  {<<Limit(Offset(r, offset), limite), total>> :
            r \in OrderByRiscos(ids, ordenacao, direcao)}

\* SELECT col, count(id) ... WHERE ativo GROUP BY col
ContagemPor(col) ==
    LET ativos == {id \in RiscoIds : riscos[id].ativo = TRUE}
    IN  [v \in {riscos[id][col] : id \in ativos} |->
            Cardinality({id \in ativos : riscos[id][col] = v})]

\* The plans joined with their risk, the risk being active.
PlanosDeRiscosAtivos ==
    {id \in PlanoIds :
        /\ planos_acao[id].risco_id \in RiscoIds
        /\ riscos[planos_acao[id].risco_id].ativo = TRUE}

\* RiscoCRUD.obter_dashboard_riscos
obter_dashboard_riscos ==
    LET ativos == {id \in RiscoIds : riscos[id].ativo = TRUE}
        criticos == {id \in ativos : riscos[id].criticidade = "CRITICO"}
        planos_atrasados ==
            {id \in PlanosDeRiscosAtivos :
                /\ planos_acao[id].data_conclusao # <<>>
                /\ planos_acao[id].data_conclusao[1] < now
                /\ planos_acao[id].status # "CONCLUIDO"}
    IN  /\ \E riscos_criticos \in SemOrdem(criticos) :
              call' = [fn |-> "obter_dashboard_riscos",
                       total_riscos |-> Cardinality(ativos),
                       total_planos |-> Cardinality(PlanosDeRiscosAtivos),
                       planos_atrasados |-> Cardinality(planos_atrasados),
                       riscos_por_criticidade |-> ContagemPor("criticidade"),
                       riscos_por_fonte |-> ContagemPor("fonte"),
                       riscos_por_categoria |-> ContagemPor("categoria"),
                       riscos_criticos |-> Limit(riscos_criticos, 10)]
        /\ UNCHANGED <<riscos, avaliacoes_historicas, planos_acao, atualizacoes_planos_acao,
                       now, last, sessoes, session_state, credentials>>

\* plano.is_atrasado() of a stored plan
PlanoIsAtrasado ==
    /\ \E plano_id \in PlanoIds :
          call' = [fn |-> "PlanoAcao.is_atrasado", plano_id |-> plano_id,
                   ret |-> is_atrasado(planos_acao[plano_id], now)]
    /\ UNCHANGED <<riscos, avaliacoes_historicas, planos_acao, atualizacoes_planos_acao,
                   now, last, sessoes, session_state, credentials>>

\* The passage of time: no handler runs, datetime.now() advances.
Tick ==
    /\ now < MaxTime
    /\ now' = now + 1
    /\ UNCHANGED <<riscos, avaliacoes_historicas, planos_acao, atualizacoes_planos_acao,
                   last, call, sessoes, session_state, credentials>>

----------------------------------------------------------------------------
(* auth/authenticator.py: StreamlitAuthenticator. A password is a sequence   *)
(* of characters; an Optional[bool] is <<>> (None), <<TRUE>> or <<FALSE>>.   *)

Senha(n) == [k \in 1..n |-> "x"]

\* config['cookie']['expiry_days'], in units of now
cookie_expiry_days == 1

\* f'{self.cookie_name}_token'
CookieToken == "risk_management_auth_token"

\* config['preauthorized']['emails'] of create_sample_config
preauthorized == {"admin@empresa.com", "user@empresa.com"}

\* hashlib.sha256(...).hexdigest(): a one-way, collision-free image
_hash_password(password) == <<"sha256", password>>

\* credentials['usernames'] of create_sample_config; both passwords are the
\* hash of a nine-character password.
create_sample_config ==
    [u \in {"admin", "user1"} |->
        IF u = "admin"
        THEN [name |-> "Administrador", email |-> "admin@empresa.com",
              password |-> _hash_password(Senha(9)), role |-> "admin"]
        ELSE [name |-> "João Silva", email |-> "joao@empresa.com",
              password |-> _hash_password(Senha(9)), role |-> "user"]]

_verify_password(stored_password, provided_password) ==
    stored_password = _hash_password(provided_password)

\* jwt.encode of the payload under cookie_key
_generate_token(username) == [username |-> username, exp |-> now + cookie_expiry_days]

\* jwt.decode returns the payload unless the token has expired
\* (ExpiredSignatureError when exp <= now); TRUE when a payload is returned.
_decode_token(token) == token.exp > now

_set_cookie(ss, token) == With(ss, CookieToken, token)

\* for key in keys: if key in st.session_state: del st.session_state[key]
DelKeys(ss, keys) == [k \in (DOMAIN ss) \ keys |-> ss[k]]

_delete_cookie(ss) == DelKeys(ss, {CookieToken})

\* The session an authenticated user of the store gets.
SessaoDe(ss, username) ==
    Merge(ss, [authentication_status |-> TRUE,
               name |-> credentials[username].name,
               username |-> username,
               user_role |-> Get(credentials[username], "role", "user")])

NaoAutenticado == <<None, None, <<>>>>

\* StreamlitAuthenticator.check_authentication: the session it leaves and the
\* tuple (name, username, authentication_status) it returns.
check_authentication(ss) ==
    IF Has(ss, "authentication_status") /\ ss["authentication_status"] = TRUE
    THEN [ss |-> ss,
          ret |-> <<Get(ss, "name", None), Get(ss, "username", None), <<TRUE>>>>]
    ELSE IF /\ Has(ss, CookieToken)
            /\ _decode_token(ss[CookieToken])
            /\ ss[CookieToken].username \in DOMAIN credentials
    THEN LET username == ss[CookieToken].username
         IN  [ss |-> SessaoDe(ss, username),
              ret |-> <<credentials[username].name, username, <<TRUE>>>>]
    ELSE [ss |-> ss, ret |-> NaoAutenticado]

_authenticate_user(username, password) ==
    IF username \in DOMAIN credentials
    THEN _verify_password(credentials[username].password, password)
    ELSE FALSE

\* str.lower() of the names that are typed
LowerNome(nome) == IF nome = "Admin" THEN "admin" ELSE nome

\* StreamlitAuthenticator.login with the form submitted: the session it
\* leaves and the tuple it returns; after a login st.rerun() ends the script
\* and nothing is returned.
login(ss, usuario, password) ==
    LET c == check_authentication(ss)
        username == LowerNome(usuario)
    IN  IF c.ret[3] = <<TRUE>> THEN [ss |-> c.ss, ret |-> c.ret, ok |-> FALSE]
        ELSE IF _authenticate_user(username, password)
        THEN [ss |-> SessaoDe(_set_cookie(c.ss, _generate_token(username)), username),
              ret |-> <<>>, ok |-> TRUE]
        ELSE [ss |-> With(c.ss, "authentication_status", FALSE),
              ret |-> <<None, None, <<FALSE>>>>, ok |-> FALSE]

keys_to_clear == {"authentication_status", "name", "username", "user_role"}

\* A logout that leaves the token cookie in the session.
_perform_logout_sem_cookie(ss) == DelKeys(ss, keys_to_clear)

\* StreamlitAuthenticator._perform_logout
_perform_logout(ss) == DelKeys(_delete_cookie(ss), keys_to_clear)

\* A registration that does not look for the username in the store.
_create_user_sem_existente(name, email, username, password, password_confirm, role) ==
    IF name = "" \/ email = "" \/ username = "" \/ password = <<>>
    THEN [credentials |-> credentials, ret |-> <<FALSE, "Todos os campos são obrigatórios">>]
    ELSE IF password # password_confirm
    THEN [credentials |-> credentials, ret |-> <<FALSE, "Senhas não conferem">>]
    ELSE IF Len(password) < 6
    THEN [credentials |-> credentials,
          ret |-> <<FALSE, "Senha deve ter pelo menos 6 caracteres">>]
    ELSE IF preauthorized # {} /\ email \notin preauthorized
    THEN [credentials |-> credentials,
          ret |-> <<FALSE, "Email não está pré-autorizado para registro">>]
    ELSE [credentials |->
              With(credentials, username,
                   [name |-> name, email |-> email, password |-> _hash_password(password),
                    role |-> role, created_at |-> now]),
          ret |-> <<TRUE, <<"Usuário", username, "criado com sucesso!">>>>]

\* StreamlitAuthenticator._create_user: the store it leaves and the pair
\* (success, message) it returns.
_create_user(name, email, username, password, password_confirm, role) ==
    IF name = "" \/ email = "" \/ username = "" \/ password = <<>>
    THEN [credentials |-> credentials, ret |-> <<FALSE, "Todos os campos são obrigatórios">>]
    ELSE IF password # password_confirm
    THEN [credentials |-> credentials, ret |-> <<FALSE, "Senhas não conferem">>]
    ELSE IF Len(password) < 6
    THEN [credentials |-> credentials,
          ret |-> <<FALSE, "Senha deve ter pelo menos 6 caracteres">>]
    ELSE IF username \in DOMAIN credentials
    THEN [credentials |-> credentials, ret |-> <<FALSE, "Nome de usuário já existe">>]
    ELSE IF preauthorized # {} /\ email \notin preauthorized
    THEN [credentials |-> credentials,
          ret |-> <<FALSE, "Email não está pré-autorizado para registro">>]
    ELSE [credentials |->
              With(credentials, username,
                   [name |-> name, email |-> email, password |-> _hash_password(password),
                    role |-> role, created_at |-> now]),
          ret |-> <<TRUE, <<"Usuário", username, "criado com sucesso!">>>>]

----------------------------------------------------------------------------
(* auth/azure_ad.py: AzureADAuthenticator and HybridAuthenticator. The       *)
(* answers of the identity provider and of Microsoft Graph are inputs.       *)

\* base64 of os.urandom(32): any of the values of a small set
AuthStates == {"s1", "s2"}

get_auth_url(ss, state) == With(ss, "auth_state", state)

\* The keywords of _determine_user_role that occur in a text.
PalavrasEm(texto) ==
    IF texto = "gerente de riscos" THEN {"gerente", "risco"}
    ELSE IF texto = "riscos" THEN {"risco"}
    ELSE {}

\* None.lower() raises AttributeError: the key is in user_info with the
\* value None, so that get() does not fall back to ''.
DetermineRoleRaises(user_info) ==
    user_info.email = None \/ user_info.department = None \/ user_info.job_title = None

_determine_user_role(user_info) ==
    LET admin_emails == {"admin@suaempresa.com", "it@suaempresa.com", "ti@suaempresa.com"}
        admin_keywords == {"admin", "administrador", "ti", "it", "diretor"}
        manager_keywords == {"gerente", "manager", "coordenador", "supervisor", "líder"}
    IN  IF user_info.email \in admin_emails THEN "admin"
        ELSE IF PalavrasEm(user_info.job_title) \cap admin_keywords # {} THEN "admin"
        ELSE IF PalavrasEm(user_info.job_title) \cap manager_keywords # {} THEN "manager"
        ELSE IF PalavrasEm(user_info.department) \cap {"risco", "compliance"} # {} THEN "user"
        ELSE "viewer"

\* _set_user_session: the keys are assigned in order, and the assignment of
\* user_role raises when _determine_user_role does.
_set_user_session(ss, user_info) ==
    LET ss4 == Merge(ss, [authentication_status |-> TRUE, name |-> user_info.name,
                          username |-> user_info.username, email |-> user_info.email])
    IN  IF DetermineRoleRaises(user_info) THEN ss4
        ELSE Merge(ss4, [user_role |-> _determine_user_role(user_info),
                         azure_user_info |-> user_info])

\* The session with the tokens of a token result; every result that is
\* modelled carries expires_in, in units of now.
ComTokens(ss, result, refresh_token) ==
    Merge(ss, [azure_access_token |-> result.access_token,
               azure_refresh_token |-> Get(result, "refresh_token", refresh_token),
               azure_token_expires |-> now + result.expires_in])

\* AzureADAuthenticator.handle_auth_callback: result is the answer of
\* acquire_token_by_authorization_code (a token result, or an error), and
\* user_info the answer of get_user_info: <<>> (None) or <<info>>. ret is the
\* username of the user_info returned, or None; ok says that the session was
\* given to a user.
handle_auth_callback(ss, auth_response, result, user_info) ==
    IF Get(auth_response, "state", None) # Get(ss, "auth_state", None)
    THEN [ss |-> ss, ret |-> None, ok |-> FALSE]
    ELSE IF Has(auth_response, "error") THEN [ss |-> ss, ret |-> None, ok |-> FALSE]
    ELSE IF ~Has(auth_response, "code") THEN [ss |-> ss, ret |-> None, ok |-> FALSE]
    ELSE IF ~Has(result, "access_token") THEN [ss |-> ss, ret |-> None, ok |-> FALSE]
    ELSE IF user_info = <<>>
    THEN [ss |-> ComTokens(ss, result, None), ret |-> None, ok |-> FALSE]
    ELSE [ss |-> _set_user_session(ComTokens(ss, result, None), user_info[1]),
          ret |-> IF DetermineRoleRaises(user_info[1]) THEN None ELSE user_info[1].username,
          ok |-> TRUE]

azure_keys ==
    {"authentication_status", "name", "username", "email", "user_role",
     "azure_access_token", "azure_refresh_token", "azure_token_expires",
     "azure_user_info", "auth_state"}

\* AzureADAuthenticator.logout
azure_logout(ss) == DelKeys(ss, azure_keys)

\* AzureADAuthenticator.refresh_token: result is the answer of
\* acquire_token_by_refresh_token.
refresh_token(ss, result) ==
    IF Get(ss, "azure_refresh_token", None) = None THEN [ss |-> ss, ret |-> FALSE]
    ELSE IF Has(result, "access_token")
    THEN [ss |-> ComTokens(ss, result, ss["azure_refresh_token"]), ret |-> TRUE]
    ELSE [ss |-> ss, ret |-> FALSE]

\* AzureADAuthenticator.check_authentication
azure_check_authentication(ss, result) ==
    IF Get(ss, "authentication_status", FALSE) = TRUE /\ Has(ss, "azure_access_token")
    THEN IF Has(ss, "azure_token_expires") /\ now < ss["azure_token_expires"]
         THEN [ss |-> ss,
               ret |-> <<Get(ss, "name", None), Get(ss, "username", None), <<TRUE>>>>]
         ELSE LET r == refresh_token(ss, result)
              IN  IF r.ret
                  THEN [ss |-> r.ss,
                        ret |-> <<Get(ss, "name", None), Get(ss, "username", None), <<TRUE>>>>]
                  ELSE [ss |-> azure_logout(ss), ret |-> NaoAutenticado]
    ELSE [ss |-> ss, ret |-> NaoAutenticado]

\* HybridAuthenticator.check_authentication, with both authenticators
hybrid_check_authentication(ss, result) ==
    LET a == azure_check_authentication(ss, result)
    IN  IF a.ret[3] = <<TRUE>> THEN a ELSE check_authentication(a.ss)

\* HybridAuthenticator._perform_logout, with both authenticators
hybrid_perform_logout(ss) == _perform_logout(azure_logout(ss))

----------------------------------------------------------------------------
(* Inputs *)

\* usuario_id = 1 of pages/risk_register.py
Actor == 1

TextCols == {"titulo_evento", "descricao_evento", "causas", "consequencias"}

\* The example of the specification: probability High (4), impact VeryHigh (5).
BaseRisco ==
    [eap |-> "1.1", fonte |-> "OPERACIONAL", categoria |-> "PROCESSO",
     titulo_evento |-> "t", descricao_evento |-> "d", causas |-> "c",
     tipo_impacto |-> "FINANCEIRO", consequencias |-> "q",
     probabilidade |-> "ALTA", impacto |-> "MUITO_ALTO"]

CodigoFornecido == <<"R", "S", "K", "-", "0", "0", "2">>

\* Complete risks: the criticality computed, or supplied.
RiscoValidoInputs ==
    {BaseRisco,
     Merge(BaseRisco, [probabilidade |-> "MUITO_BAIXA", impacto |-> "BAIXO",
                       criticidade |-> "CRITICO"])}

\* And risks with the code supplied, or with a field absent or empty.
CriarRiscoInputs ==
    RiscoValidoInputs
    \cup {With(BaseRisco, "codigo_risco", <<>>), With(BaseRisco, "codigo_risco", CodigoFornecido),
          Without(BaseRisco, "probabilidade"), Without(BaseRisco, "impacto")}
    \cup {Without(BaseRisco, k) : k \in TextCols}
    \cup {With(BaseRisco, k, "") : k \in TextCols}

AtualizarRiscoInputs ==
    {[impacto |-> "BAIXO"],
     [probabilidade |-> "MUITO_BAIXA"],
     [criticidade |-> "ALTO", motivo_mudanca |-> "reavaliado"],
     [eap |-> "1.2"],
     \* the stored impact of BaseRisco again
     [impacto |-> "MUITO_ALTO"],
     \* NULL for a NOT NULL column
     [probabilidade |-> None]}

BasePlano == [risco_id |-> 1, descricao_acao |-> "a"]

CriarPlanoInputs ==
    {BasePlano,
     With(BasePlano, "data_conclusao", <<1>>),
     Merge(BasePlano, [data_conclusao |-> <<1>>, atrasado |-> TRUE]),
     With(BasePlano, "risco_id", 2),
     With(BasePlano, "risco_id", MaxRiscos + 1),
     Without(BasePlano, "descricao_acao")}

AtualizarPlanoInputs ==
    {[status |-> s] : s \in StatusAcao}
    \cup {[percentual_conclusao |-> 50],
          [percentual_conclusao |-> 150],
          [status |-> "CONCLUIDO", percentual_conclusao |-> 100],
          [data_conclusao |-> <<1>>],
          [atrasado |-> TRUE]}

----------------------------------------------------------------------------
(* The store *)

Vazio == <<>>

Init ==
    /\ riscos = Vazio
    /\ avaliacoes_historicas = <<>>
    /\ planos_acao = Vazio
    /\ atualizacoes_planos_acao = <<>>
    /\ now = 0
    /\ last = [op |-> "init"]
    /\ call = [fn |-> "none"]
    /\ sessoes = <<>>
    /\ session_state = <<>>
    /\ credentials = create_sample_config

CriarRisco ==
    /\ Cardinality(RiscoIds) < MaxRiscos
    /\ \E d \in CriarRiscoInputs : criar_risco(d, Actor)

CriarRiscoValido ==
    /\ Cardinality(RiscoIds) < MaxAvaliados
    /\ \E d \in RiscoValidoInputs : criar_risco(d, Actor)

AtualizarRisco ==
    \E id \in 1..(MaxAvaliados + 1), d \in AtualizarRiscoInputs, sh \in BOOLEAN :
        atualizar_risco(id, d, Actor, sh)

ExcluirRisco == \E id \in 1..(MaxAvaliados + 1) : excluir_risco(id)

CriarPlanoAcao == \E d \in CriarPlanoInputs : criar_plano_acao(d, Actor)

AtualizarPlanoAcao ==
    \E id \in 1..MaxPlanos, d \in AtualizarPlanoInputs, sh \in BOOLEAN :
        atualizar_plano_acao(id, d, Actor, sh)

NextCriar == CriarRisco \/ Tick

NextRisco == CriarRiscoValido \/ AtualizarRisco \/ ExcluirRisco

NextPlano == CriarPlanoAcao \/ AtualizarPlanoAcao \/ Tick

Next == NextCriar \/ NextRisco \/ NextPlano

Spec == Init /\ [][Next]_vars

\* Risk creation alone, over every input.
SpecCriar == Init /\ [][NextCriar]_vars

\* The risk lifecycle of complete risks.
SpecRisco == Init /\ [][NextRisco]_vars

----------------------------------------------------------------------------
(* conection.migrate_from_csv: step 3, the risks of the CSV files            *)
(* identificacao_risco and avaliacao_riscos                                  *)

\* str(n) of a number below ten, as text.
StrCurto(n) == Digits[n + 1]

\* The Risco built from row idx of identificacao_risco, whose only column is
\* ID (every other column takes the default of row.get), and from the row of
\* avaliacao_riscos at the same index, if there is one.
RiscoMigrado(csv_files, idx, id) ==
    LET ID == csv_files.identificacao_risco[idx]
        ident == [eap |-> StrCurto(ID),
                  codigo_risco |-> <<"R", "S", "K", "-">> \o zfill(Str(ID), ZFillWidth),
                  fonte |-> "Operacional", categoria |-> "Conformidade",
                  titulo_evento |-> "", descricao_evento |-> "", causas |-> "",
                  tipo_impacto |-> "Objetivo do projeto", consequencias |-> "",
                  criado_por_id |-> Actor]
        aval == [probabilidade |-> "Média", impacto |-> "Moderado", criticidade |-> "Médio"]
    IN  Risco(IF idx <= csv_files.avaliacao_riscos THEN Merge(ident, aval) ELSE ident, id)

\* session.query(PlanoAcao).delete() and session.query(Risco).delete() are
\* bulk DELETEs: the store refuses them (FOREIGN KEY) while rows of
\* atualizacoes_planos_acao or avaliacoes_historicas reference the rows.
DeleteOk == atualizacoes_planos_acao = <<>> /\ avaliacoes_historicas = <<>>

\* Ids start again at 1 in the emptied table.
Migrados(csv_files) ==
    [id \in 1..Len(csv_files.identificacao_risco) |-> RiscoMigrado(csv_files, id, id)]

MigradosOk(csv_files) ==
    \A id \in DOMAIN Migrados(csv_files) :
        RiscoConstraintsOk(Migrados(csv_files)[id],
                           {Migrados(csv_files)[x] : x \in (DOMAIN Migrados(csv_files)) \ {id}})

migrate_from_csv(csv_files) ==
    LET ok == DeleteOk /\ MigradosOk(csv_files)
    IN  /\ riscos' = session_scope(riscos, Migrados(csv_files), ok)
        /\ planos_acao' = session_scope(planos_acao, <<>>, ok)
        /\ last' = IF ok
                   THEN [op |-> "migrate_from_csv", ret |-> TRUE, erro |-> None]
                   ELSE [op |-> "migrate_from_csv", ret |-> FALSE, erro |-> "IntegrityError"]
        /\ UNCHANGED <<avaliacoes_historicas, atualizacoes_planos_acao, now, call, sessoes, session_state, credentials>>

\* The CSV files: no risk, a risk with its assessment, a risk without.
CsvInputs ==
    {[identificacao_risco |-> <<>>, avaliacao_riscos |-> 0],
     [identificacao_risco |-> <<1>>, avaliacao_riscos |-> 1],
     [identificacao_risco |-> <<1>>, avaliacao_riscos |-> 0]}

MigrateFromCsv == \E csv_files \in CsvInputs : migrate_from_csv(csv_files)

\* The risk lifecycle and the CSV migration.
SpecMigracao == Init /\ [][NextRisco \/ MigrateFromCsv]_vars

\* The action plans of a store that holds an active risk 1 and a deactivated
\* risk 2 (criar_risco(BaseRisco) twice, then excluir_risco(2)).
RiscosIniciais ==
    LET r(id) == Risco(Merge(BaseRisco,
                             [codigo_risco |-> GerarCodigo(id - 1), criticidade |-> "CRITICO",
                              criado_por_id |-> Actor, data_identificacao |-> 0,
                              atualizado_em |-> 0]), id)
    IN  [id \in 1..2 |-> IF id = 2 THEN [r(id) EXCEPT !.ativo = FALSE] ELSE r(id)]

InitPlano ==
    /\ riscos = RiscosIniciais
    /\ avaliacoes_historicas = <<>>
    /\ planos_acao = Vazio
    /\ atualizacoes_planos_acao = <<>>
    /\ now = 0
    /\ last = [op |-> "init"]
    /\ call = [fn |-> "none"]
    /\ sessoes = <<>>
    /\ session_state = <<>>
    /\ credentials = create_sample_config

SpecPlano == InitPlano /\ [][NextPlano]_vars

----------------------------------------------------------------------------
(* Deactivation in a store with risks, a history row and action plans *)

\* The row written by atualizar_risco(1, {impacto: MUITO_ALTO}, Actor), which
\* leaves risk 1 as it is.
HistoricoInicial ==
    <<_salvar_historico_avaliacao(RiscosIniciais[1], [impacto |-> "MUITO_ALTO"], Actor)>>

InitExcluir ==
    /\ riscos = RiscosIniciais
    /\ avaliacoes_historicas = HistoricoInicial
    /\ planos_acao = Vazio
    /\ atualizacoes_planos_acao = <<>>
    /\ now = 0
    /\ last = [op |-> "init"]
    /\ call = [fn |-> "none"]
    /\ sessoes = <<>>
    /\ session_state = <<>>
    /\ credentials = create_sample_config

SpecExcluir == InitExcluir /\ [][CriarPlanoAcao \/ ExcluirRisco \/ Tick]_vars

----------------------------------------------------------------------------
(* The queries, on every store of up to MaxConsulta plans of risk 1 *)

\* Plans as criar_plano_acao stores them from these keyword arguments: in
\* progress, completed or cancelled, with or without an end date, last
\* updated at the earliest or the latest time.
PlanoConsultaInputs ==
    {Merge(BasePlano, [data_conclusao |-> dc, status |-> st, atualizado_em |-> u,
                       criado_por_id |-> Actor]) :
        dc \in {<<>>} \cup {<<t>> : t \in 0..MaxTime},
        st \in {"EM_ANDAMENTO", "CONCLUIDO", "CANCELADO"},
        u \in {0, MaxTime}}

DiasToleranciaInputs == {0, 1}

InitConsulta ==
    /\ riscos = RiscosIniciais
    /\ avaliacoes_historicas = <<>>
    /\ \E n \in 0..MaxConsulta : \E f \in [1..n -> PlanoConsultaInputs] :
          planos_acao = [id \in 1..n |-> PlanoAcao(f[id], id)]
    /\ atualizacoes_planos_acao = <<>>
    /\ now = MaxTime
    /\ last = [op |-> "init"]
    /\ call = [fn |-> "none"]
    /\ sessoes = <<>>
    /\ session_state = <<>>
    /\ credentials = create_sample_config

ObterPlanosAtrasados == \E dias \in DiasToleranciaInputs : obter_planos_atrasados(dias)

SpecConsulta == InitConsulta /\ [][ObterPlanosAtrasados \/ obter_dashboard_planos]_vars

----------------------------------------------------------------------------
(* The overdue computations over a store of plans of an active and of an     *)
(* inactive risk, with end dates before now and at now                       *)

PlanoAtrasoInputs ==
    {Merge(BasePlano, [risco_id |-> r, data_conclusao |-> dc, status |-> st,
                       criado_por_id |-> Actor]) :
        r \in {1, 2},
        dc \in {<<>>, <<MaxTime - 1>>, <<MaxTime>>},
        st \in {"EM_ANDAMENTO", "CONCLUIDO", "CANCELADO"}}

InitAtrasados ==
    /\ riscos = RiscosIniciais
    /\ avaliacoes_historicas = <<>>
    /\ now = MaxTime
    /\ \E n \in 0..MaxConsulta : \E f \in [1..n -> PlanoAtrasoInputs] :
          planos_acao = [id \in 1..n |-> PlanoAcao(f[id], id)]
    /\ atualizacoes_planos_acao = <<>>
    /\ last = [op |-> "init"]
    /\ call = [fn |-> "none"]
    /\ sessoes = <<>>
    /\ session_state = <<>>
    /\ credentials = create_sample_config

ListarPlanosAcao ==
    \E risco_id \in {0, 1}, status \in {None, "EM_ANDAMENTO"},
       atrasados_apenas \in BOOLEAN, limite \in {0, 1} :
        listar_planos_acao(risco_id, status, atrasados_apenas, limite)

SpecAtrasados ==
    InitAtrasados /\ [][\/ ListarPlanosAcao
                          \/ ObterPlanosAtrasados
                          \/ obter_dashboard_riscos
                          \/ obter_dashboard_planos
                          \/ PlanoIsAtrasado]_vars

----------------------------------------------------------------------------
(* Listing a store of risks page by page                                     *)

RiscoListaInputs ==
    {Merge(BaseRisco, [criticidade |-> c, ativo |-> a, criado_por_id |-> Actor,
                       data_identificacao |-> 0, atualizado_em |-> 0]) :
        c \in {"ALTO", "CRITICO"}, a \in BOOLEAN}

InitListar ==
    /\ \E n \in 0..MaxLista : \E f \in [1..n -> RiscoListaInputs] :
          riscos = [id \in 1..n |->
                       Risco(With(f[id], "codigo_risco", GerarCodigo(id - 1)), id)]
    /\ avaliacoes_historicas = <<>>
    /\ planos_acao = Vazio
    /\ atualizacoes_planos_acao = <<>>
    /\ now = 0
    /\ last = [op |-> "init"]
    /\ call = [fn |-> "none"]
    /\ sessoes = <<>>
    /\ session_state = <<>>
    /\ credentials = create_sample_config

\* The first call of a listing.
ListarRiscos ==
    /\ call.fn = "none"
    /\ \E filtros \in {<<>>, [ativo |-> TRUE], [criticidade |-> {"CRITICO"}],
                        [criticidade |-> {}, ativo |-> FALSE]},
          ordenacao \in {"id", "criticidade", "prioridade"},
          direcao \in {"asc", "desc", "DESC"},
          limite \in 0..MaxLista, offset \in 0..MaxLista :
          \E ret \in listar_riscos(filtros, ordenacao, direcao, limite, offset) :
              call' = [fn |-> "listar_riscos", filtros |-> filtros, ordenacao |-> ordenacao,
                       direcao |-> direcao, limite |-> limite, offset |-> offset,
                       ret |-> ret[1], total |-> ret[2],
                       primeira |-> offset, anteriores |-> <<>>]
    /\ UNCHANGED <<riscos, avaliacoes_historicas, planos_acao, atualizacoes_planos_acao,
                   now, last, sessoes, session_state, credentials>>

\* The caller asks for the page after the one it holds: the same call with
\* the offset advanced by the limit, while the total says rows remain.
ProximaPagina ==
    /\ call.fn = "listar_riscos"
    /\ call.limite # 0
    /\ call.offset + call.limite < call.total
    /\ \E ret \in listar_riscos(call.filtros, call.ordenacao, call.direcao, call.limite,
                                 call.offset + call.limite) :
          call' = [call EXCEPT !.offset = call.offset + call.limite,
                               !.ret = ret[1], !.total = ret[2],
                               !.anteriores = call.anteriores \o call.ret]
    /\ UNCHANGED <<riscos, avaliacoes_historicas, planos_acao, atualizacoes_planos_acao,
                   now, last, sessoes, session_state, credentials>>

SpecListar == InitListar /\ [][ListarRiscos \/ ProximaPagina]_vars

----------------------------------------------------------------------------
(* One browser session of an application with both authenticators            *)

AuthResponseInputs ==
    {[code |-> "c", state |-> "s1"],
     [code |-> "c"],
     [state |-> "s1", error |-> "access_denied"],
     [state |-> "s1"]}

TokenResultInputs ==
    {[access_token |-> "at", refresh_token |-> "rt", expires_in |-> 1],
     [access_token |-> "at", expires_in |-> 1],
     [error |-> "invalid_grant"]}

\* The answers of get_user_info: None, or the fields of the user_info that
\* the session uses, the job title being null for some users.
UserInfoInputs ==
    LET ana == [username |-> "ana@empresa.com", email |-> "ana@empresa.com", name |-> "Ana",
                job_title |-> "gerente de riscos", department |-> "riscos"]
    IN  {<<>>, <<ana>>, <<[ana EXCEPT !.job_title = None]>>}

InitAuth ==
    /\ riscos = Vazio
    /\ avaliacoes_historicas = <<>>
    /\ planos_acao = Vazio
    /\ atualizacoes_planos_acao = <<>>
    /\ now = 0
    /\ last = [op |-> "init"]
    /\ call = [fn |-> "none"]
    /\ sessoes = <<>>
    /\ session_state = <<>>
    /\ credentials = create_sample_config

AuthUnchanged ==
    UNCHANGED <<riscos, avaliacoes_historicas, planos_acao, atualizacoes_planos_acao,
                now, last, sessoes, credentials>>

\* A logout: last records whether the session was authenticated before it.
Logout(ss) ==
    /\ session_state' = ss
    /\ call' = [fn |-> "_perform_logout", ret |-> <<>>, ok |-> FALSE]
    /\ last' = [op |-> "_perform_logout",
                 autenticado |-> Get(session_state, "authentication_status", FALSE)]
    /\ UNCHANGED <<riscos, avaliacoes_historicas, planos_acao, atualizacoes_planos_acao,
                   now, sessoes, credentials>>

Login ==
    /\ \E usuario \in {"admin", "Admin", "ana@empresa.com"},
          password \in {Senha(9), Senha(5)} :
          LET r == login(session_state, usuario, password)
          IN  /\ session_state' = r.ss
              /\ call' = [fn |-> "login", ret |-> r.ret, ok |-> r.ok]
    /\ AuthUnchanged

CheckAuthentication ==
    /\ LET r == check_authentication(session_state)
       IN  /\ session_state' = r.ss
           /\ call' = [fn |-> "check_authentication", ret |-> r.ret, ok |-> FALSE]
    /\ AuthUnchanged

PerformLogout == Logout(_perform_logout(session_state))

GetAuthUrl ==
    /\ \E state \in AuthStates : session_state' = get_auth_url(session_state, state)
    /\ call' = [fn |-> "get_auth_url", ret |-> <<>>, ok |-> FALSE]
    /\ AuthUnchanged

HandleAuthCallback ==
    /\ \E auth_response \in AuthResponseInputs, result \in TokenResultInputs,
          user_info \in UserInfoInputs :
          LET r == handle_auth_callback(session_state, auth_response, result, user_info)
          IN  /\ session_state' = r.ss
              /\ call' = [fn |-> "handle_auth_callback", ret |-> <<r.ret>>, ok |-> r.ok,
                           auth_response |-> auth_response]
    /\ AuthUnchanged

HybridCheckAuthentication ==
    /\ \E result \in TokenResultInputs :
          LET r == hybrid_check_authentication(session_state, result)
          IN  /\ session_state' = r.ss
              /\ call' = [fn |-> "check_authentication", ret |-> r.ret, ok |-> FALSE]
    /\ AuthUnchanged

HybridPerformLogout == Logout(hybrid_perform_logout(session_state))

NextAuth ==
    \/ Login
    \/ CheckAuthentication
    \/ PerformLogout
    \/ GetAuthUrl
    \/ HandleAuthCallback
    \/ HybridCheckAuthentication
    \/ HybridPerformLogout
    \/ Tick

SpecAuth == InitAuth /\ [][NextAuth]_vars

----------------------------------------------------------------------------
(* Registration of users in the credential store                             *)

CreateUser ==
    /\ \E a \in [name : {"Ana", ""},
                 email : {"user@empresa.com", "ana@empresa.com", ""},
                 username : {"admin", "ana", "bia", ""},
                 password : {Senha(6), Senha(5), <<>>},
                 password_confirm : {Senha(6), Senha(5)},
                 role : {"user", "admin"}] :
          LET r == _create_user(a.name, a.email, a.username, a.password,
                                a.password_confirm, a.role)
          IN  /\ credentials' = r.credentials
              /\ call' = [fn |-> "_create_user", args |-> a, ret |-> r.ret]
    /\ UNCHANGED <<riscos, avaliacoes_historicas, planos_acao, atualizacoes_planos_acao,
                   now, last, sessoes, session_state>>

SpecCadastro == InitAuth /\ [][CreateUser]_vars

----------------------------------------------------------------------------
(* Two actors update risk 1 concurrently, each inside its own session_scope: *)
(* atualizar_risco reads the row and changes it in the session, and the end  *)
(* of the with block commits.                                                *)

Atores == {1, 2}

AtualizarConcorrenteInputs ==
    {[impacto |-> "BAIXO"],
     [impacto |-> "MUITO_ALTO"],
     [probabilidade |-> "MUITO_BAIXA"],
     [criticidade |-> "ALTO", motivo_mudanca |-> "reavaliado"]}

SessaoNova ==
    [pc |-> "inicio", dados |-> <<>>, carregado |-> <<>>, risco |-> <<>>,
     historico |-> <<>>, ordem |-> 0, erro |-> None]

\* atualizar_risco up to its return: the row as loaded by the query, the row
\* as modified in the session, and the history row added to the session.
AtualizarEmSessao(t, risco_id, dados_atualizacao) ==
    /\ sessoes[t].pc = "inicio"
    /\ risco_id \in RiscoIds
    /\ LET risco == riscos[risco_id]
       IN  sessoes' = [sessoes EXCEPT ![t] =
               [pc |-> "aberta", dados |-> dados_atualizacao, carregado |-> risco,
                risco |-> RiscoAtualizado(risco, dados_atualizacao),
                historico |-> IF GravaHistorico(dados_atualizacao, TRUE)
                              THEN <<_salvar_historico_avaliacao(risco, dados_atualizacao, t)>>
                              ELSE <<>>,
                ordem |-> 0, erro |-> None]]
    /\ UNCHANGED <<riscos, avaliacoes_historicas, planos_acao, atualizacoes_planos_acao,
                   now, last, call, session_state, credentials>>

\* An UPDATE that leaves alone a column another transaction has changed
\* since the row was loaded.
FlushSeInalterado(linha, carregado, risco) ==
    [c \in DOMAIN linha |->
        IF risco[c] # carregado[c] /\ linha[c] = carregado[c] THEN risco[c] ELSE linha[c]]

\* The UPDATE of the unit of work: it sets the columns whose value in the
\* session differs from the value that was loaded, and no other.
Flush(linha, carregado, risco) ==
    [c \in DOMAIN linha |-> IF risco[c] # carregado[c] THEN risco[c] ELSE linha[c]]

\* The end of the with block: session.commit().
Commit(t) ==
    /\ sessoes[t].pc = "aberta"
    /\ LET id == sessoes[t].carregado.id
           novo == Flush(riscos[id], sessoes[t].carregado, sessoes[t].risco)
           ok == RiscoConstraintsOk(novo, OutrosRiscos(id))
       IN  /\ riscos' = session_scope(riscos, [riscos EXCEPT ![id] = novo], ok)
           /\ avaliacoes_historicas' =
                  session_scope(avaliacoes_historicas,
                                avaliacoes_historicas \o sessoes[t].historico, ok)
           /\ sessoes' = [sessoes EXCEPT
                  ![t].pc = "fim",
                  ![t].ordem = 1 + Cardinality({u \in Atores : sessoes[u].pc = "fim"}),
                  ![t].erro = IF ok THEN None ELSE "IntegrityError"]
    /\ UNCHANGED <<planos_acao, atualizacoes_planos_acao, now, last, call, session_state, credentials>>

InitConcorrente ==
    /\ riscos = RiscosIniciais
    /\ avaliacoes_historicas = <<>>
    /\ planos_acao = Vazio
    /\ atualizacoes_planos_acao = <<>>
    /\ now = 0
    /\ last = [op |-> "init"]
    /\ call = [fn |-> "none"]
    /\ sessoes = [t \in Atores |-> SessaoNova]
    /\ session_state = <<>>
    /\ credentials = create_sample_config

AtualizarConcorrente ==
    \E t \in Atores, d \in AtualizarConcorrenteInputs : AtualizarEmSessao(t, 1, d)

CommitConcorrente == \E t \in Atores : Commit(t)

NextConcorrente == AtualizarConcorrente \/ CommitConcorrente

SpecConcorrente == InitConcorrente /\ [][NextConcorrente]_vars

----------------------------------------------------------------------------
(* The pure functions, applied to every input of a bounded set *)

NivelInputsP == NivelProbabilidade \cup {Unmapped}

NivelInputsI == NivelImpacto \cup {Unmapped}

DataInputs == {<<>>} \cup {<<t>> : t \in 0..MaxTime}

InitScore ==
    /\ riscos = Vazio
    /\ avaliacoes_historicas = <<>>
    /\ planos_acao = Vazio
    /\ atualizacoes_planos_acao = <<>>
    /\ last = [op |-> "init"]
    /\ sessoes = <<>>
    /\ session_state = <<>>
    /\ credentials = create_sample_config
    /\ \/ /\ now = 0
          /\ \E p \in NivelInputsP, i \in NivelInputsI :
                call = [fn |-> "_calcular_criticidade", probabilidade |-> p, impacto |-> i,
                        done |-> FALSE, ret |-> None]
       \/ /\ now \in 0..MaxTime
          /\ \E dc \in DataInputs, s \in StatusAcao :
                call = [fn |-> "is_atrasado", data_conclusao |-> dc, status |-> s,
                        done |-> FALSE, ret |-> FALSE]

ApplyCalcularCriticidade ==
    /\ call.fn = "_calcular_criticidade" /\ ~call.done
    /\ call' = [call EXCEPT !.done = TRUE,
                            !.ret = _calcular_criticidade(call.probabilidade, call.impacto)]
    /\ UNCHANGED <<riscos, avaliacoes_historicas, planos_acao, atualizacoes_planos_acao,
                   now, last, sessoes, session_state, credentials>>

ApplyIsAtrasado ==
    /\ call.fn = "is_atrasado" /\ ~call.done
    /\ call' = [call EXCEPT !.done = TRUE,
                            !.ret = is_atrasado([data_conclusao |-> call.data_conclusao,
                                                 status |-> call.status], now)]
    /\ UNCHANGED <<riscos, avaliacoes_historicas, planos_acao, atualizacoes_planos_acao,
                   now, last, sessoes, session_state, credentials>>

SpecScore == InitScore /\ [][ApplyCalcularCriticidade \/ ApplyIsAtrasado]_vars

----------------------------------------------------------------------------
(* Claims *)

\* The ordinal of a level: very low is 1, very high is 5.
OrdemProbabilidade == <<"MUITO_BAIXA", "BAIXA", "MEDIA", "ALTA", "MUITO_ALTA">>

OrdemImpacto == <<"MUITO_BAIXO", "BAIXO", "MODERADO", "ALTO", "MUITO_ALTO">>

Ordinal(ordem, nivel) == CHOOSE n \in 1..Len(ordem) : ordem[n] = nivel

Produto(p, i) == Ordinal(OrdemProbabilidade, p) * Ordinal(OrdemImpacto, i)

Calculou(p, i) ==
    /\ call.fn = "_calcular_criticidade"
    /\ call.done
    /\ call.probabilidade = p
    /\ call.impacto = i

\* C1: for mapped levels p and i, _calcular_criticidade(p, i) is Low when
\* p*i <= 4, Medium when 5 <= p*i <= 9, High when 10 <= p*i <= 16 and Critical
\* when 17 <= p*i <= 25; score(1,1) = Low, score(3,3) = Medium, score(5,5) =
\* Critical.
C1_Tiers ==
    /\ \A p \in NivelProbabilidade, i \in NivelImpacto :
          Calculou(p, i) =>
              /\ Produto(p, i) <= 4 => call.ret = "BAIXO"
              /\ Produto(p, i) \in 5..9 => call.ret = "MEDIO"
              /\ Produto(p, i) \in 10..16 => call.ret = "ALTO"
              /\ Produto(p, i) \in 17..25 => call.ret = "CRITICO"
    /\ Calculou("MUITO_BAIXA", "MUITO_BAIXO") => call.ret = "BAIXO"
    /\ Calculou("MEDIA", "MODERADO") => call.ret = "MEDIO"
    /\ Calculou("MUITO_ALTA", "MUITO_ALTO") => call.ret = "CRITICO"

\* The boundary product 16 = ALTA * ALTO has been scored High.
C1_Witness == Calculou("ALTA", "ALTO") /\ call.ret = "ALTO"

\* A history row records the risk's current criticality as the new value of
\* some change: the most lenient reading of "a recorded justification".
JustificativaRegistrada(r) ==
    \E n \in 1..Len(avaliacoes_historicas) :
        /\ avaliacoes_historicas[n].risco_id = r.id
        /\ avaliacoes_historicas[n].criticidade_nova = r.criticidade

\* C2: every stored risk's criticality equals the score of its stored
\* probability and impact, unless it was overridden with a recorded
\* justification.
C2_CriticalityConsistent ==
    \A id \in RiscoIds :
        \/ riscos[id].criticidade =
               _calcular_criticidade(riscos[id].probabilidade, riscos[id].impacto)
        \/ JustificativaRegistrada(riscos[id])

\* C3: an atualizar_risco call (history on) that updates the probability or
\* the impact of a stored risk writes exactly one history row, whose prior
\* values are the risk's before the call and whose new values are the risk's
\* after it.
C3_HistoryRow ==
    [][\A id \in 1..(MaxAvaliados + 1), d \in AtualizarRiscoInputs :
          ( /\ atualizar_risco(id, d, Actor, TRUE)
            /\ id \in RiscoIds
            /\ (Has(d, "probabilidade") \/ Has(d, "impacto")) )
          => /\ Len(avaliacoes_historicas') = Len(avaliacoes_historicas) + 1
             /\ LET h == avaliacoes_historicas'[Len(avaliacoes_historicas')]
                IN  /\ h.risco_id = id
                    /\ h.probabilidade_anterior = riscos[id].probabilidade
                    /\ h.impacto_anterior = riscos[id].impacto
                    /\ h.criticidade_anterior = riscos[id].criticidade
                    /\ h.probabilidade_nova = riscos'[id].probabilidade
                    /\ h.impacto_novo = riscos'[id].impacto
                    /\ h.criticidade_nova = riscos'[id].criticidade
      ]_vars

\* C4: excluir_risco on a stored risk that is already inactive returns false,
\* leaves the risk inactive and raises nothing.
C4_SecondDeactivation ==
    ( /\ last.op = "excluir_risco"
      /\ last.risco_id \in RiscoIds
      /\ ~last.ativo_antes )
    => /\ last.ret = FALSE
       /\ ~riscos[last.risco_id].ativo
       /\ last.erro = None

\* The overdue flag the specification derives: the end date is in the past
\* and the plan is not Completed.
Overdue(plano, t) ==
    /\ plano.data_conclusao # <<>>
    /\ plano.data_conclusao[1] < t
    /\ plano.status # "CONCLUIDO"

\* C5: in every reachable state each plan's stored flag atrasado is true iff
\* its end date is in the past and its status is not Completed.
C5_StoredFlagDerived ==
    \A id \in PlanoIds : planos_acao[id].atrasado = Overdue(planos_acao[id], now)

\* C6: is_atrasado() is true iff the end date is before now and the status is
\* neither Completed nor Cancelled.
C6_IsOverdue ==
    (call.fn = "is_atrasado" /\ call.done)
    => call.ret = ( /\ call.data_conclusao # <<>>
                    /\ call.data_conclusao[1] < now
                    /\ call.status \notin {"CONCLUIDO", "CANCELADO"} )

\* The status machine: forward along NotStarted -> InProgress -> Completed
\* (a step may be skipped), Cancelled from any state but Completed, Overdue
\* never stored.
TransicaoPermitida(de, para) ==
    \/ de = "NAO_INICIADO" /\ para \in {"EM_ANDAMENTO", "CONCLUIDO"}
    \/ de = "EM_ANDAMENTO" /\ para = "CONCLUIDO"
    \/ de # "CONCLUIDO" /\ para = "CANCELADO"

\* C7: an atualizar_plano_acao call changes a plan's status only along
\* NotStarted -> InProgress -> Completed or to Cancelled from a state other
\* than Completed; Completed is never left and Overdue is never stored.
C7_StatusMachine ==
    [][\A id \in PlanoIds :
          (id \in DOMAIN planos_acao' /\ planos_acao'[id].status # planos_acao[id].status)
          => TransicaoPermitida(planos_acao[id].status, planos_acao'[id].status)
      ]_vars

\* C8: a plan whose status is not NotStarted never has the status NotStarted
\* again.
C8_NeverBackToNotStarted ==
    [][\A id \in PlanoIds :
          (id \in DOMAIN planos_acao' /\ planos_acao[id].status # "NAO_INICIADO")
          => planos_acao'[id].status # "NAO_INICIADO"
      ]_vars

\* RSK-<n>, n in decimal, zero-padded to at least three digits.
FormatoRSK(codigo) ==
    /\ Len(codigo) >= 4 + ZFillWidth
    /\ SubSeq(codigo, 1, 4) = <<"R", "S", "K", "-">>
    /\ \A k \in 5..Len(codigo) : \E n \in 1..Len(Digits) : Digits[n] = codigo[k]

\* The call supplied every required column but the code and the criticality.
Completo(dados) ==
    \A c \in RiscoNotNull \ {"criticidade"} : Has(dados, c) /\ dados[c] # None

\* C9: after any sequence of criar_risco calls the stored risks have distinct
\* codes, a generated code has the form RSK-<n> zero-padded to three digits,
\* and the code generated for a complete risk never equals the code of an
\* already stored risk.
C9_UniqueCodes ==
    /\ \A a, b \in RiscoIds : a # b => riscos[a].codigo_risco # riscos[b].codigo_risco
    /\ (last.op = "criar_risco" /\ last.gerado # <<>> /\ Completo(last.dados)) =>
          /\ FormatoRSK(last.gerado)
          /\ \A id \in RiscoIds \ {last.id} : riscos[id].codigo_risco # last.gerado

\* A required text field is absent from the dict, None, or empty.
CampoFaltando(dados) ==
    \E k \in TextCols : ~Has(dados, k) \/ dados[k] = None \/ dados[k] = ""

\* C10: criar_risco fails, and stores no risk, whenever the title, the
\* description, the causes or the consequences are absent or empty. (Any
\* error raised is taken for the ValidationError.)
C10_RequiredFields ==
    (last.op = "criar_risco" /\ CampoFaltando(last.dados))
    => (last.erro # None /\ last.ret = None /\ last.id = 0)

\* An atualizar_risco step on an id that matches no stored risk.
AtualizaDesconhecido(id, d, sh) ==
    /\ id \notin RiscoIds
    /\ atualizar_risco(id, d, Actor, sh)

C12_ActiveRiskRequired ==
    \A id \in PlanoIds :
        /\ planos_acao[id].risco_id \in RiscoIds
        /\ (last.op = "criar_plano_acao" /\ last.plano_id = id)
              => riscos[planos_acao[id].risco_id].ativo

\* An atualizar_plano_acao step, history on, that changes the status or the
\* completion percentage of a stored plan.
AtualizaPlanoMudando(id, d) ==
    /\ id \in PlanoIds
    /\ atualizar_plano_acao(id, d, Actor, TRUE)
    /\ \/ planos_acao'[id].status # planos_acao[id].status
       \/ planos_acao'[id].percentual_conclusao # planos_acao[id].percentual_conclusao

\* C13: an atualizar_plano_acao call, history on, that changes the status or
\* the completion percentage writes exactly one update row holding the plan's
\* prior and new status and percentage, and afterwards the plan's flag
\* atrasado is the value derived from the current time and the plan's end
\* date and status after the update.
C13_UpdateRowAndFlag ==
    [][\A id \in 1..MaxPlanos, d \in AtualizarPlanoInputs :
          AtualizaPlanoMudando(id, d)
          => /\ Len(atualizacoes_planos_acao') = Len(atualizacoes_planos_acao) + 1
             /\ SubSeq(atualizacoes_planos_acao', 1, Len(atualizacoes_planos_acao))
                    = atualizacoes_planos_acao
             /\ LET h == atualizacoes_planos_acao'[Len(atualizacoes_planos_acao')]
                IN  /\ h.plano_acao_id = id
                    /\ h.status_anterior = planos_acao[id].status
                    /\ h.percentual_anterior = planos_acao[id].percentual_conclusao
                    /\ h.status_novo = planos_acao'[id].status
                    /\ h.percentual_novo = planos_acao'[id].percentual_conclusao
             /\ planos_acao'[id].atrasado = Overdue(planos_acao'[id], now)
      ]_vars

\* An update has completed a plan whose end date had passed: the row records
\* the change and the stored flag is false.
C13_Witness ==
    /\ last.op = "atualizar_plano_acao"
    /\ Len(atualizacoes_planos_acao) = 1
    /\ atualizacoes_planos_acao[1].status_anterior # "CONCLUIDO"
    /\ atualizacoes_planos_acao[1].status_novo = "CONCLUIDO"
    /\ \E id \in PlanoIds :
          /\ planos_acao[id].status = "CONCLUIDO"
          /\ planos_acao[id].data_conclusao # <<>>
          /\ planos_acao[id].data_conclusao[1] < now
          /\ ~planos_acao[id].atrasado

Consultou(dias) ==
    /\ call.fn = "obter_planos_atrasados"
    /\ call.dias_tolerancia = dias

\* C14: obter_planos_atrasados(dias_tolerancia) returns exactly the plans
\* whose end date is at or before now - dias_tolerancia and whose status is
\* neither Completed nor Cancelled (plans with no end date are excluded), in
\* ascending order of end date.
C14_ListOverdue ==
    \A dias \in DiasToleranciaInputs :
        Consultou(dias) =>
            /\ \A a, b \in 1..Len(call.ret) : a # b => call.ret[a] # call.ret[b]
            /\ \A id \in PlanoIds :
                  (\E a \in 1..Len(call.ret) : call.ret[a] = id)
                  <=> /\ planos_acao[id].data_conclusao # <<>>
                      /\ planos_acao[id].data_conclusao[1] + dias <= now
                      /\ planos_acao[id].status \notin {"CONCLUIDO", "CANCELADO"}
            /\ \A a \in 1..(Len(call.ret) - 1) :
                  planos_acao[call.ret[a]].data_conclusao[1]
                      <= planos_acao[call.ret[a + 1]].data_conclusao[1]

\* The query, with a tolerance of one day, has returned two overdue plans,
\* the one with the earlier end date first although it was stored second.
C14_Witness ==
    /\ Consultou(1)
    /\ Len(call.ret) = 2
    /\ planos_acao[call.ret[1]].data_conclusao[1] < planos_acao[call.ret[2]].data_conclusao[1]
    /\ call.ret[1] > call.ret[2]

Completados == {id \in PlanoIds : planos_acao[id].status = "CONCLUIDO"}

\* taxa (in tenths of a percent) is 100 * num / den rounded to one decimal.
Arredondado(taxa, num, den) ==
    /\ 2 * (taxa * den - 1000 * num) <= den
    /\ 2 * (1000 * num - taxa * den) <= den

\* C15: obter_dashboard_planos reports an on-time completion rate equal to
\* 100 * (number of Completed plans whose last-update timestamp <= end date)
\* / (number of Completed plans), rounded to one decimal, and 0.0 when there
\* is no Completed plan.
C15_OnTimeRate ==
    call.fn = "obter_dashboard_planos" =>
        IF Completados = {}
        THEN call.taxa_conclusao_prazo = 0
        ELSE Arredondado(call.taxa_conclusao_prazo,
                         Cardinality({id \in Completados :
                                         /\ planos_acao[id].data_conclusao # <<>>
                                         /\ planos_acao[id].atualizado_em
                                                <= planos_acao[id].data_conclusao[1]}),
                         Cardinality(Completados))

\* C15 as amended: the Completed plans that have no end date count as on
\* time too.
C15_OnTimeRateNoEndDate ==
    call.fn = "obter_dashboard_planos" =>
        IF Completados = {}
        THEN call.taxa_conclusao_prazo = 0
        ELSE Arredondado(call.taxa_conclusao_prazo,
                         Cardinality({id \in Completados :
                                         \/ planos_acao[id].data_conclusao = <<>>
                                         \/ planos_acao[id].atualizado_em
                                                <= planos_acao[id].data_conclusao[1]}),
                         Cardinality(Completados))

\* The dashboard has reported 50.0 for two Completed plans, one updated
\* after its end date and one with no end date.
C15_Witness ==
    /\ call.fn = "obter_dashboard_planos"
    /\ call.taxa_conclusao_prazo = 500
    /\ Cardinality(Completados) = 2
    /\ \E id \in Completados : planos_acao[id].data_conclusao = <<>>

\* C16: when a step of an atualizar_risco run inside session_scope fails
\* after the history row was added and fields were set, the transaction is
\* rolled back entirely: the committed store holds neither the history row
\* nor any of the field changes, it equals the store before the call.
C16_Rollback ==
    [][\A id \in 1..(MaxAvaliados + 1), d \in AtualizarRiscoInputs, sh \in BOOLEAN :
          (atualizar_risco(id, d, Actor, sh) /\ last'.erro # None)
          => UNCHANGED <<riscos, avaliacoes_historicas, planos_acao,
                         atualizacoes_planos_acao, session_state, credentials>>
      ]_vars

\* An update of a stored risk that had added its history row to the session
\* has failed at commit.
C16_Witness ==
    /\ last.op = "atualizar_risco"
    /\ last.risco_id \in RiscoIds
    /\ last.erro = "IntegrityError"
    /\ last.historico
    /\ avaliacoes_historicas = <<>>

\* The columns an update writes: the ones it assigns from its dict, and the
\* criticality it recomputes.
Escritos(t) ==
    ((DOMAIN sessoes[t].dados) \cap RiscoColumns)
    \cup (IF Has(sessoes[t].dados, "probabilidade") \/ Has(sessoes[t].dados, "impacto")
          THEN {"criticidade"} ELSE {})

\* The update that committed last among those that wrote column c.
UltimoEscritor(c) ==
    CHOOSE t \in Atores :
        /\ c \in Escritos(t)
        /\ \A u \in Atores : c \in Escritos(u) => sessoes[u].ordem <= sessoes[t].ordem

\* C17: when two actors update the same risk concurrently in separate
\* transactions, after both commit each column written by either update
\* holds the value written by the update that committed last for that
\* column, and no update fails because of the other.
C17_LastWriteWins ==
    (sessoes # <<>> /\ \A t \in Atores : sessoes[t].pc = "fim")
    => /\ \A t \in Atores : sessoes[t].erro = None
       /\ \A c \in UNION {Escritos(t) : t \in Atores} :
             riscos[1][c] = sessoes[UltimoEscritor(c)].risco[c]

\* The columns an update changes: the written ones whose value in the session
\* differs from the value the update read.
Alterados(t) == {c \in Escritos(t) : sessoes[t].risco[c] # sessoes[t].carregado[c]}

UltimoAlterador(c) ==
    CHOOSE t \in Atores :
        /\ c \in Alterados(t)
        /\ \A u \in Atores : c \in Alterados(u) => sessoes[u].ordem <= sessoes[t].ordem

\* C17 as amended: after both commit, each column whose value either update
\* changed holds the value of the update that committed last among those
\* that changed it, and no update fails because of the other.
C17_LastChangeWins ==
    (sessoes # <<>> /\ \A t \in Atores : sessoes[t].pc = "fim")
    => /\ \A t \in Atores : sessoes[t].erro = None
       /\ \A c \in UNION {Alterados(t) : t \in Atores} :
             riscos[1][c] = sessoes[UltimoAlterador(c)].risco[c]

\* Both actors read the risk before either committed, both changed its
\* criticality, to different values, and both have committed.
C17_Witness ==
    /\ sessoes # <<>>
    /\ \A t \in Atores :
          /\ sessoes[t].pc = "fim"
          /\ "criticidade" \in Alterados(t)
          /\ sessoes[t].carregado.criticidade = "CRITICO"
    /\ \E t, u \in Atores : sessoes[t].risco.criticidade # sessoes[u].risco.criticidade

ExcluiExistente(id) == id \in RiscoIds /\ excluir_risco(id)

\* C19: excluir_risco on a stored risk changes only that risk's flag ativo:
\* the risk's other fields, its action plans, its history rows and all other
\* risks are unchanged and remain retrievable by id.
C19_OnlyActiveFlag ==
    [][\A id \in 1..(MaxAvaliados + 1) :
          ExcluiExistente(id)
          => /\ riscos' = [riscos EXCEPT ![id].ativo = FALSE]
             /\ UNCHANGED <<planos_acao, avaliacoes_historicas, atualizacoes_planos_acao, session_state, credentials>>
      ]_vars

\* C19 as amended: excluir_risco on a stored risk changes only that risk's
\* flag ativo and its timestamp atualizado_em.
C19_ActiveFlagAndTimestamp ==
    [][\A id \in 1..(MaxAvaliados + 1) :
          ExcluiExistente(id)
          => /\ DOMAIN riscos' = DOMAIN riscos
             /\ ~riscos'[id].ativo
             /\ \A c \in RiscoColumns \ {"ativo", "atualizado_em"} :
                   riscos'[id][c] = riscos[id][c]
             /\ \A o \in RiscoIds \ {id} : riscos'[o] = riscos[o]
             /\ UNCHANGED <<planos_acao, avaliacoes_historicas, atualizacoes_planos_acao, session_state, credentials>>
      ]_vars

\* Risk 1, which has a history row and an action plan, has been deactivated
\* some time after it was last updated.
C19_Witness ==
    /\ last.op = "excluir_risco"
    /\ last.risco_id = 1
    /\ last.ativo_antes
    /\ ~riscos[1].ativo
    /\ riscos[1].atualizado_em > 0
    /\ \E p \in PlanoIds : planos_acao[p].risco_id = 1
    /\ \E n \in 1..Len(avaliacoes_historicas) : avaliacoes_historicas[n].risco_id = 1

\* An atualizar_risco step, history on, on a stored risk.
AtualizaExistente(id, d) == id \in RiscoIds /\ atualizar_risco(id, d, Actor, TRUE)

\* The step changes the probability, the impact or the criticality of risk id.
MudaAvaliacao(id) ==
    \E c \in AvaliacaoKeys : riscos'[id][c] # riscos[id][c]

\* C20: a history row is created exactly once for each update of a risk that
\* changes probability, impact or criticality, and not by an update that
\* leaves all three unchanged; once created, a row is never modified or
\* deleted.
C20_HistoryOncePerChange ==
    [][/\ Len(avaliacoes_historicas') >= Len(avaliacoes_historicas)
       /\ SubSeq(avaliacoes_historicas', 1, Len(avaliacoes_historicas)) = avaliacoes_historicas
       /\ \A id \in 1..(MaxAvaliados + 1), d \in AtualizarRiscoInputs :
             AtualizaExistente(id, d)
             => Len(avaliacoes_historicas') =
                    Len(avaliacoes_historicas) + (IF MudaAvaliacao(id) THEN 1 ELSE 0)
      ]_vars

\* Low < Medium < High < Critical
OrdemCriticidade == <<"BAIXO", "MEDIO", "ALTO", "CRITICO">>

\* C22: the score is monotonically non-decreasing in both arguments over the
\* five levels: raising the probability or the impact never lowers the tier.
C22_Monotonic ==
    \A p \in NivelProbabilidade, i \in NivelImpacto :
        Calculou(p, i) =>
            \A p2 \in NivelProbabilidade, i2 \in NivelImpacto :
                ( /\ Ordinal(OrdemProbabilidade, p) <= Ordinal(OrdemProbabilidade, p2)
                  /\ Ordinal(OrdemImpacto, i) <= Ordinal(OrdemImpacto, i2) )
                => Ordinal(OrdemCriticidade, call.ret)
                      <= Ordinal(OrdemCriticidade, _calcular_criticidade(p2, i2))

\* A pair below the top has been scored High: pairs above it exist.
C22_Witness == Calculou("ALTA", "MODERADO") /\ call.ret = "ALTO"

\* C24: the scorer never fails on a level outside the five mapped ones: an
\* unmapped probability or impact counts as 3, so score(unmapped, i) is the
\* tier of 3*i and score(unmapped, unmapped) is Medium.
C24_UnmappedIsThree ==
    /\ \A i \in NivelImpacto :
          Calculou(Unmapped, i) =>
              /\ 3 * Ordinal(OrdemImpacto, i) <= 4 => call.ret = "BAIXO"
              /\ 3 * Ordinal(OrdemImpacto, i) \in 5..9 => call.ret = "MEDIO"
              /\ 3 * Ordinal(OrdemImpacto, i) \in 10..16 => call.ret = "ALTO"
    /\ \A p \in NivelProbabilidade :
          Calculou(p, Unmapped) =>
              /\ Ordinal(OrdemProbabilidade, p) * 3 <= 4 => call.ret = "BAIXO"
              /\ Ordinal(OrdemProbabilidade, p) * 3 \in 5..9 => call.ret = "MEDIO"
              /\ Ordinal(OrdemProbabilidade, p) * 3 \in 10..16 => call.ret = "ALTO"
    /\ Calculou(Unmapped, Unmapped) => call.ret = "MEDIO"
    /\ (call.fn = "_calcular_criticidade" /\ call.done) => call.ret \in NivelCriticidade

\* An unmapped probability with the highest impact has been scored High.
C24_Witness == Calculou(Unmapped, "MUITO_ALTO") /\ call.ret = "ALTO"

SemAvaliacao(d) == ~Has(d, "probabilidade") \/ ~Has(d, "impacto")

C25_PercentInRange ==
    \A id \in PlanoIds : planos_acao[id].percentual_conclusao \in 0..100

\* C26: when two atualizar_risco calls on the same Risk run in separate
\* sessions, one supplying only probabilidade and the other only impacto,
\* then after both commit the stored criticidade equals
\* _calcular_criticidade(stored probabilidade, stored impacto).
C26_ConcurrentScoreConsistent ==
    ( /\ sessoes # <<>>
      /\ \A t \in Atores : sessoes[t].pc = "fim"
      /\ \E t, u \in Atores :
            /\ DOMAIN sessoes[t].dados = {"probabilidade"}
            /\ DOMAIN sessoes[u].dados = {"impacto"} )
    => riscos[1].criticidade
          = _calcular_criticidade(riscos[1].probabilidade, riscos[1].impacto)

\* The classification of PlanoAcao.is_atrasado() at this instant.
Atrasado(id) == is_atrasado(planos_acao[id], now)

Retornados(r) == {r[a] : a \in 1..Len(r)}

\* C27: all overdue computations agree on the same store at the same
\* instant: for plans of active risks, listar_planos_acao(atrasados_apenas =
\* True), obter_planos_atrasados(0), the planos_atrasados count of
\* obter_dashboard_riscos, the total_atrasados count of
\* obter_dashboard_planos and PlanoAcao.is_atrasado() classify every plan
\* identically.
C27_OverdueAgree ==
    LET overdue == {id \in PlanosDeRiscosAtivos : Atrasado(id)}
    IN  /\ ( /\ call.fn = "listar_planos_acao"
              /\ call.atrasados_apenas
              /\ call.risco_id = 0 /\ call.status = None /\ call.limite = 0 )
            => Retornados(call.ret) \cap PlanosDeRiscosAtivos = overdue
        /\ Consultou(0)
            => Retornados(call.ret) \cap PlanosDeRiscosAtivos = overdue
        /\ call.fn = "obter_dashboard_riscos"
            => call.planos_atrasados = Cardinality(overdue)
        /\ (call.fn = "obter_dashboard_planos" /\ PlanosDeRiscosAtivos = PlanoIds)
            => call.total_atrasados = Cardinality(overdue)
        /\ call.fn = "PlanoAcao.is_atrasado"
            => call.ret = Atrasado(call.plano_id)

\* The risks that match the filters of the listing.
Correspondentes ==
    {id \in RiscoIds :
        /\ Has(call.filtros, "ativo") => riscos[id].ativo = call.filtros["ativo"]
        /\ (Has(call.filtros, "criticidade") /\ call.filtros["criticidade"] # {})
              => riscos[id].criticidade \in call.filtros["criticidade"]}

\* r with its first n elements removed
Resto(r, n) == [k \in 1..(IF Len(r) > n THEN Len(r) - n ELSE 0) |-> r[k + n]]

\* the first n elements of r
Inicio(r, n) == [k \in 1..(IF Len(r) > n THEN n ELSE Len(r)) |-> r[k]]

\* C21 (total): the total returned by listar_riscos is the number of risks
\* matching the filters, whatever offset and limit are passed.
C21_Total ==
    call.fn = "listar_riscos" => call.total = Cardinality(Correspondentes)

\* C21 (slice): the returned list is the slice [offset, offset + limit) of
\* the matching risks in the requested sort order.
C21_Slice ==
    call.fn = "listar_riscos" =>
        \E r \in OrderByRiscos(Correspondentes, call.ordenacao, call.direcao) :
            call.ret = Inicio(Resto(r, call.offset), call.limite)

\* C21 (pages): successive pages are disjoint, and from offset 0 to the last
\* page they cover every matching risk once.
C21_Pages ==
    (call.fn = "listar_riscos" /\ call.limite # 0) =>
        LET vistos == call.anteriores \o call.ret
        IN  /\ \A a, b \in 1..Len(vistos) : a # b => vistos[a] # vistos[b]
            /\ (call.primeira = 0 /\ call.offset + call.limite >= call.total)
                  => Retornados(vistos) = Correspondentes

\* C21: listar_riscos returns a total count equal to the number of risks
\* matching the filters regardless of offset and limit, and the returned list
\* is exactly the slice [offset, offset + limit) of the matching risks in the
\* requested sort order, so successive pages are disjoint and together cover
\* every matching risk once.
C21_Pagination == C21_Total /\ C21_Slice /\ C21_Pages

\* No token cookie, and no authentication_status that is True.
Deslogado ==
    /\ ~Has(session_state, CookieToken)
    /\ Get(session_state, "authentication_status", FALSE) = FALSE

LoginBemSucedido == call'.fn \in {"login", "handle_auth_callback"} /\ call'.ok

ChavesDeAutenticacao(ss) ==
    [k \in (DOMAIN ss) \cap (azure_keys \ {"auth_state"}) |-> ss[k]]

\* C29: handle_auth_callback establishes an authenticated session (sets
\* authentication_status and the Azure tokens) only if the response carries
\* a state equal to the one get_auth_url generated in this session; a
\* response with a missing or mismatched state, an error field or no code
\* returns None and leaves the authentication keys of the session unchanged.
C29_StateChecked ==
    [][HandleAuthCallback =>
          LET resp == call'.auth_response
              gerado == /\ Has(resp, "state")
                        /\ Has(session_state, "auth_state")
                        /\ resp["state"] = session_state["auth_state"]
          IN  /\ ChavesDeAutenticacao(session_state') # ChavesDeAutenticacao(session_state)
                    => gerado
              /\ (~gerado \/ Has(resp, "error") \/ ~Has(resp, "code"))
                    => /\ call'.ret = <<None>>
                       /\ ChavesDeAutenticacao(session_state')
                              = ChavesDeAutenticacao(session_state)]_vars

\* The conditions under which a registration is to be rejected.
Rejeitavel(a) ==
    \/ a.name = "" \/ a.email = "" \/ a.username = "" \/ a.password = <<>>
    \/ a.password # a.password_confirm
    \/ Len(a.password) < 6
    \/ a.username \in DOMAIN credentials
    \/ (preauthorized # {} /\ a.email \notin preauthorized)

\* C30: _create_user either rejects the request (a field empty, passwords
\* differ, password shorter than 6, username already present, or a non-empty
\* preauthorized list not containing the email), returning (False, message)
\* with the credential store unchanged, or adds exactly one new username and
\* returns (True, message); it never overwrites or removes an existing entry.
C30_CreateUser ==
    [][(call'.fn = "_create_user" /\ <<call, credentials>>' # <<call, credentials>>) =>
          LET a == call'.args
          IN  /\ \A u \in DOMAIN credentials :
                    u \in DOMAIN credentials' /\ credentials'[u] = credentials[u]
              /\ IF Rejeitavel(a)
                 THEN call'.ret[1] = FALSE /\ credentials' = credentials
                 ELSE /\ call'.ret[1] = TRUE
                      /\ a.username \notin DOMAIN credentials
                      /\ DOMAIN credentials' = (DOMAIN credentials) \cup {a.username}]_vars

\* A user has been added to the store, and a registration that is complete
\* but for its username, which is in the store, has been rejected.
C30_Witness ==
    /\ "ana" \in DOMAIN credentials
    /\ call.fn = "_create_user"
    /\ call.ret[1] = FALSE
    /\ call.args.username \in {"admin", "ana"}
    /\ call.args.name # "" /\ call.args.email \in preauthorized
    /\ call.args.password = call.args.password_confirm
    /\ Len(call.args.password) = 6

====
